---- MODULE Spec2Model ----
(***************************************************************************)
(* A model of the shared crawl core of the open-library crawlers:          *)
(*   - crawlers/base.py: get_with_retries, compute_backoff_seconds,        *)
(*     canonicalize_url, path_ext                                          *)
(*   - the frontier crawl loops of devb_publications,                      *)
(*     archsd_practices_and_guidelines and emsd.regulating_railway_safety  *)
(*   - the telephone directory crawl and its dedup model                   *)
(*   - archsd_technical_documents: hub, sections and year selectors        *)
(*   - utils/html_links.py: the scoped and the whole-page anchor parser    *)
(*   - crawlers/link_extract.py: the one-page link crawler                 *)
(*   - main.py: the run of the crawlers and the written output             *)
(* Text is modelled as sequences of one-character strings, so that string  *)
(* operations (startswith, rstrip, find, lower) are computed, not assumed. *)
(***************************************************************************)
EXTENDS Integers, Sequences, FiniteSets, TLC

VARIABLES
    \* ---- get_with_retries (crawlers/base.py) ----
    max_retries,      \* the max_retries argument
    attempt,          \* the loop index of `for attempt in range(max_retries + 1)`
    fstate,           \* "running" | "returned" | "raised"
    responses,        \* history: the outcome of every session.get issued so far
    sleeps,           \* history: every sleep_seconds call, in order
    last_err,         \* the local last_err
    fresult,          \* what was returned or raised
    \* ---- canonicalize_url (crawlers/base.py), applied to drawn inputs ----
    canon_in,         \* the two input strings: a URL and a variant of it
    canon_rel,        \* how the variant differs from the URL
    canon_opts,       \* the keyword options of the call
    canon_out,        \* canonicalize_url of each input, once computed
    canon_again,      \* canonicalize_url of canon_out[1], once computed
    \* ---- a crawl run: Crawler.crawl of one crawler ----
    crawler,          \* the crawler's name
    cfg,              \* its settings, as crawl() reads them
    queue,            \* the local queue
    visited_pages,    \* the set visited_pages (visited_urls_normalized in emsd)
    skipped_pages,    \* the set skipped_pages
    seen_docs,        \* the set seen_docs
    out,              \* the list out (records in emsd); what crawl() returns once done
    cstate,           \* "idle" | "running" | "done" | "raised"
    fetched,          \* history: every page fetch, with its depth and outcome
    page_entries,     \* tel_directory: the dict page_entries
    record_by_key,    \* tel_directory: the dict record_by_key, a record being its place in out
    politeness,       \* history: every politeness sleep of the frontier loop, in quarter seconds
    \* ---- utils/html_links.py: one document fed to both anchor parsers ----
    scoped_parser,    \* the fields of the _ScopedAnchorParser
    anchor_parser,    \* the fields of the _AnchorParser
    dom,              \* history: the document's open elements and its anchors
    pstate,           \* "idle" | "feeding" | "done"
    extracted,        \* what the extractors and _iter_links returned
    \* ---- main.py: one run of main() ----
    names_left,       \* the crawlers of crawler_names still to run
    all_records,      \* the list all_records
    written,          \* the lines of latest/urls.jsonl
    files,            \* history: the files main() wrote, in order
    mstate,           \* "idle" | "running" | "collected" | "written" | "raised"
    \* ---- compute_backoff_seconds (crawlers/base.py), called attempt by attempt ----
    backoff_in,       \* the base and jitter arguments, in quarter seconds
    backoff_attempt,  \* the attempt argument of the next call
    backoff_out,      \* history: the delays of the last two calls
    \* ---- _normalize_phone and _dedup_key (tel_directory), applied to drawn inputs ----
    phone_in,         \* a local number, two ways of writing it, and a department
    phone_out         \* the normalized numbers and the dedup keys, once computed

fvars == <<max_retries, attempt, fstate, responses, sleeps, last_err, fresult>>
cvars == <<canon_in, canon_rel, canon_opts, canon_out, canon_again>>

kvars == <<crawler, cfg, queue, visited_pages, skipped_pages, seen_docs, out,
           cstate, fetched, page_entries, record_by_key, politeness>>

pvars == <<scoped_parser, anchor_parser, dom, pstate, extracted>>
mvars == <<names_left, all_records, written, files, mstate>>
bvars == <<backoff_in, backoff_attempt, backoff_out>>
hvars == <<phone_in, phone_out>>

vars == <<max_retries, attempt, fstate, responses, sleeps, last_err, fresult,
          canon_in, canon_rel, canon_opts, canon_out, canon_again,
          crawler, cfg, queue, visited_pages, skipped_pages, seen_docs, out,
          cstate, fetched, page_entries, record_by_key, politeness,
          scoped_parser, anchor_parser, dom, pstate, extracted,
          names_left, all_records, written, files, mstate,
          backoff_in, backoff_attempt, backoff_out,
          phone_in, phone_out>>

(***************************************************************************)
(* Generic helpers on sequences.                                           *)
(***************************************************************************)
Range(s) == {s[i] : i \in DOMAIN s}

\* the value Python's None
None == <<"<None>">>


(***************************************************************************)
(* Text: a string is a sequence of one-character strings.                  *)
(***************************************************************************)
Min(S) == CHOOSE x \in S : \A y \in S : x <= y
Max(S) == CHOOSE x \in S : \A y \in S : x >= y

\* the decimal digits
Digits == <<"0", "1", "2", "3", "4", "5", "6", "7", "8", "9">>
IsDigit(c) == \E d \in DOMAIN Digits : Digits[d] = c
DigitValue(c) == (CHOOSE d \in DOMAIN Digits : Digits[d] = c) - 1

\* str.lower on one character
Uppers ==
    <<"A", "B", "C", "D", "E", "F", "G", "H", "I", "J", "K", "L", "M", "N", "O", "P", "Q",
      "R", "S", "T", "U", "V", "W", "X", "Y", "Z">>
Lowers ==
    <<"a", "b", "c", "d", "e", "f", "g", "h", "i", "j", "k", "l", "m", "n", "o", "p", "q",
      "r", "s", "t", "u", "v", "w", "x", "y", "z">>
IsUpper(c) == \E i \in DOMAIN Uppers : Uppers[i] = c
IsLetter(c) == IsUpper(c) \/ \E i \in DOMAIN Lowers : Lowers[i] = c
LowerChar(c) ==
    IF IsUpper(c) THEN Lowers[CHOOSE i \in DOMAIN Uppers : Uppers[i] = c] ELSE c

\* str.lower
Lower(s) == [i \in DOMAIN s |-> LowerChar(s[i])]

\* str.startswith, str.endswith
StartsWith(s, p) == Len(p) <= Len(s) /\ SubSeq(s, 1, Len(p)) = p
EndsWith(s, p) == Len(p) <= Len(s) /\ SubSeq(s, Len(s) - Len(p) + 1, Len(s)) = p

\* str.find(c, from) with positions counted from 1; 0 when c does not occur
FindFrom(s, c, from) ==
    LET hits == {i \in from..Len(s) : s[i] = c}
    IN  IF hits = {} THEN 0 ELSE Min(hits)

\* str.rfind(c) with positions counted from 1; 0 when c does not occur
RFind(s, c) ==
    LET hits == {i \in 1..Len(s) : s[i] = c}
    IN  IF hits = {} THEN 0 ELSE Max(hits)

\* str.rstrip(c), str.lstrip(c): every trailing (leading) c is removed
RECURSIVE RStrip(_, _)
RStrip(s, c) ==
    IF s # <<>> /\ s[Len(s)] = c THEN RStrip(SubSeq(s, 1, Len(s) - 1), c) ELSE s

RECURSIVE LStrip(_, _)
LStrip(s, c) ==
    IF s # <<>> /\ s[1] = c THEN LStrip(Tail(s), c) ELSE s

\* str.strip() for the whitespace of the model, the space
Strip(s) == LStrip(RStrip(s, " "), " ")

\* str.replace(" ", "%20")
RECURSIVE EncodeSpaces(_)
EncodeSpaces(s) ==
    IF s = <<>> THEN <<>>
    ELSE (IF s[1] = " " THEN <<"%", "2", "0">> ELSE <<s[1]>>) \o EncodeSpaces(Tail(s))

(***************************************************************************)
(* urllib.parse.urlparse and urlunparse, as canonicalize_url uses them.    *)
(***************************************************************************)
AlphaChars ==
    {"a", "b", "c", "d", "e", "f", "h", "i", "j", "l", "m", "o", "p", "q", "r",
     "s", "t", "v", "x",
     "A", "D", "E", "F", "H", "J", "L", "P", "S", "T", "X"}

\* urllib.parse.scheme_chars
SchemeChars == AlphaChars \cup {"0", "1", "2", "+", "-", "."}

\* the schemes of urllib.parse.uses_netloc and uses_params that the model meets
UsesNetloc == {<<>>, <<"h", "t", "t", "p">>}
UsesParams == {<<>>, <<"h", "t", "t", "p">>, <<"t", "e", "l">>}

\* urllib.parse._splitparams
SplitParams(url) ==
    LET slash == RFind(url, "/")
        i == IF slash > 0 THEN FindFrom(url, ";", slash) ELSE FindFrom(url, ";", 1)
    IN  IF i = 0
        THEN [path |-> url, params |-> <<>>]
        ELSE [path |-> SubSeq(url, 1, i - 1), params |-> SubSeq(url, i + 1, Len(url))]

\* urllib.parse.urlparse, step by step; each step hands what it split off to
\* the next one.  Last step: `_splitparams` when the scheme uses params and
\* the path holds a ";", and the ParseResult
ParseResult(scheme, netloc, sp, query, fragment) ==
    [scheme |-> scheme, netloc |-> netloc, path |-> sp.path,
     params |-> sp.params, query |-> query, fragment |-> fragment]

SplitPath(scheme, netloc, u, query, fragment) ==
    ParseResult(scheme, netloc,
                IF scheme \in UsesParams /\ FindFrom(u, ";", 1) > 0
                THEN SplitParams(u)
                ELSE [path |-> u, params |-> <<>>],
                query, fragment)

\* `if '?' in url: url, query = url.split('?', 1)`, q the position of the "?"
SplitQueryAt(scheme, netloc, u, fragment, q) ==
    IF q > 0
    THEN SplitPath(scheme, netloc, SubSeq(u, 1, q - 1), SubSeq(u, q + 1, Len(u)), fragment)
    ELSE SplitPath(scheme, netloc, u, <<>>, fragment)

\* `if '#' in url: url, fragment = url.split('#', 1)`, h the position of the "#"
SplitFragmentAt(scheme, netloc, u, h) ==
    IF h > 0
    THEN SplitQueryAt(scheme, netloc, SubSeq(u, 1, h - 1),
                      SubSeq(u, h + 1, Len(u)),
                      FindFrom(SubSeq(u, 1, h - 1), "?", 1))
    ELSE SplitQueryAt(scheme, netloc, u, <<>>, FindFrom(u, "?", 1))

\* urllib.parse._splitnetloc: the netloc ends at the first of "/", "?", "#"
NetlocEnd(u) ==
    LET delims == {FindFrom(u, c, 3) : c \in {"/", "?", "#"}} \ {0}
    IN  IF delims = {} THEN Len(u) + 1 ELSE Min(delims)

SplitNetlocAt(scheme, u, delim) ==
    SplitFragmentAt(scheme, SubSeq(u, 3, delim - 1), SubSeq(u, delim, Len(u)),
                    FindFrom(SubSeq(u, delim, Len(u)), "#", 1))

\* `if url[:2] == '//': netloc, url = _splitnetloc(url, 2)`
SplitNetloc(scheme, u) ==
    IF StartsWith(u, <<"/", "/">>)
    THEN SplitNetlocAt(scheme, u, NetlocEnd(u))
    ELSE SplitFragmentAt(scheme, <<>>, u, FindFrom(u, "#", 1))

\* the scheme: the text before the first ":", when it is at least one
\* character, starts with a letter and holds only scheme characters
SplitSchemeAt(url, i) ==
    IF /\ i > 1
       /\ url[1] \in AlphaChars
       /\ \A k \in 1..(i - 1) : url[k] \in SchemeChars
    THEN SplitNetloc(Lower(SubSeq(url, 1, i - 1)), SubSeq(url, i + 1, Len(url)))
    ELSE SplitNetloc(<<>>, url)

SplitScheme(url) == SplitSchemeAt(url, FindFrom(url, ":", 1))

\* urllib.parse.urlparse
urlparse(url0) == SplitScheme(LStrip(url0, " "))

\* urlsplit, once the netloc is cut: `if (('[' in netloc and ']' not in netloc) or
\* (']' in netloc and '[' not in netloc)): raise ValueError("Invalid IPv6 URL")`
InvalidIPv6(netloc) == ("[" \in Range(netloc)) # ("]" \in Range(netloc))

\* what a call that raised ValueError leaves its caller with
ValueError == <<"<ValueError>">>

\* urllib.parse.urlunparse
urlunparse(p) ==
    LET u0 == IF p.params # <<>> THEN p.path \o <<";">> \o p.params ELSE p.path
        withNet == \/ p.netloc # <<>>
                   \/ /\ p.scheme # <<>>
                      /\ p.scheme \in UsesNetloc
                      /\ ~StartsWith(u0, <<"/", "/">>)
        u1 == IF withNet
              THEN <<"/", "/">> \o p.netloc
                   \o (IF u0 # <<>> /\ u0[1] # "/" THEN <<"/">> \o u0 ELSE u0)
              ELSE u0
        u2 == IF p.scheme # <<>> THEN p.scheme \o <<":">> \o u1 ELSE u1
        u3 == IF p.query # <<>> THEN u2 \o <<"?">> \o p.query ELSE u2
    IN  IF p.fragment # <<>> THEN u3 \o <<"#">> \o p.fragment ELSE u3

(***************************************************************************)
(* canonicalize_url and path_ext                                           *)
(***************************************************************************)
\* reject_schemes=("javascript", "mailto", "tel")
reject_schemes ==
    {<<"j", "a", "v", "a", "s", "c", "r", "i", "p", "t">>,
     <<"m", "a", "i", "l", "t", "o">>,
     <<"t", "e", "l">>}

\* the default keyword options of canonicalize_url
DefaultOpts ==
    [encode_spaces |-> FALSE, lowercase_scheme_host |-> TRUE,
     strip_fragment |-> TRUE, trim_trailing_slash |-> TRUE,
     allowed_host |-> None]

\* `if trim_trailing_slash and path != "/" and path.endswith("/"): path.rstrip("/")`
TrimPath_keep(path, trim) == path
TrimPath(path, trim) ==
    IF trim /\ path # <<"/">> /\ EndsWith(path, <<"/">>)
    THEN RStrip(path, "/")
    ELSE path

\* `fragment = "" if strip_fragment else p.fragment`
CanonFragment(fragment, strip) == IF strip THEN <<>> ELSE fragment

\* `p.netloc.lower() if lowercase_scheme_host else p.netloc`
CanonNetloc(netloc, lowercase) == IF lowercase THEN Lower(netloc) ELSE netloc

\* the rebuilt URL: `urlunparse((scheme, netloc, path, p.params, p.query, fragment))`
CanonRebuild(p, scheme, netloc, opts) ==
    urlunparse([scheme |-> scheme, netloc |-> netloc,
                path |-> TrimPath(IF p.path = <<>> THEN <<"/">> ELSE p.path,
                                  opts.trim_trailing_slash),
                params |-> p.params, query |-> p.query,
                fragment |-> CanonFragment(p.fragment, opts.strip_fragment)])

\* `if allowed_host is not None and netloc != allowed_host.lower(): return None`
CanonHostChecked(p, netloc, opts) ==
    IF opts.allowed_host # None /\ netloc # Lower(opts.allowed_host)
    THEN None
    ELSE CanonRebuild(p,
                      IF opts.lowercase_scheme_host THEN Lower(p.scheme) ELSE p.scheme,
                      netloc, opts)

\* `if not p.scheme or not p.netloc: return None`
CanonParsed(p, opts) ==
    IF p.scheme = <<>> \/ p.netloc = <<>>
    THEN None
    ELSE CanonHostChecked(p, CanonNetloc(p.netloc, opts.lowercase_scheme_host), opts)

\* `if lower.startswith(sch + ":") for sch in reject_schemes: return None`, else urlparse
CanonStripped(s, opts) ==
    IF \E sch \in reject_schemes : StartsWith(Lower(s), Lower(sch) \o <<":">>)
    THEN None
    ELSE IF InvalidIPv6(urlparse(s).netloc)
    THEN ValueError
    ELSE CanonParsed(urlparse(s), opts)

\* `if encode_spaces: s = s.replace(" ", "%20")`
CanonNonEmpty(s0, opts) ==
    IF s0 = <<>>
    THEN None
    ELSE CanonStripped(IF opts.encode_spaces THEN EncodeSpaces(s0) ELSE s0, opts)

\* canonicalize_url(url, **opts); url may be None
canonicalize_url(url, opts) ==
    IF url = None THEN None ELSE CanonNonEmpty(Strip(url), opts)

\* path_ext(url)
path_ext(url) ==
    LET path == Lower(urlparse(url).path)
        dot == RFind(path, ".")
    IN  IF dot = 0 THEN <<>> ELSE SubSeq(path, dot, Len(path))


(***************************************************************************)
(* get_with_retries                                                        *)
(***************************************************************************)
\* the largest max_retries explored
MaxRetriesBound == 3

\* retry_statuses=(429, 500, 502, 503, 504)
retry_statuses == {429, 500, 502, 503, 504}

\* the HTTP statuses a stub transport answers with
Statuses == {200, 404, 429, 503}

\* Retry-After header of a response: absent, a number, or not a number
RetryAfterKinds == {"absent", "number", "garbage"}

\* the outcome of one session.get: a response, or a network-level exception
Outcomes ==
    [kind : {"response"}, status : Statuses, retry_after : RetryAfterKinds]
    \cup {[kind |-> "exception", status |-> 0, retry_after |-> "absent"]}

\* requests.Response.raise_for_status raises HTTPError for 4xx and 5xx
RaisesForStatus(status) == status >= 400 /\ status < 600

HTTPError(status) == [err |-> "HTTPError", status |-> status]
NetworkError == [err |-> "ConnectionError", status |-> 0]
AssertionError == [err |-> "AssertionError", status |-> 0]
NoError == [err |-> "none", status |-> 0]

\* `for attempt in range(max_retries + 1)`: the loop body runs for this index
InRange(a, m) == a < m + 1

\* `if attempt >= max_retries`
IsLastAttempt_early(a, m) == a + 1 >= m
IsLastAttempt(a, m) == a >= m

RetryAfterSleeps_unparsed(o) ==
    IF o.retry_after # "absent"
    THEN <<[kind |-> "retry_after", attempt |-> attempt]>>
    ELSE <<>>

\* the sleeps of the retryable-status branch: Retry-After first, then backoff
RetryAfterSleeps(o) ==
    IF o.retry_after = "number"
    THEN <<[kind |-> "retry_after", attempt |-> attempt]>>
    ELSE <<>>

BackoffSleep == [kind |-> "backoff", attempt |-> attempt]

\* the end of the for loop: `assert last_err is not None; raise last_err`
LoopExit(err) ==
    IF err = NoError THEN AssertionError ELSE err

\* the except clause: `last_err = e; if attempt >= max_retries: raise; sleep`
Caught(e) ==
    /\ last_err' = e
    /\ IF IsLastAttempt(attempt, max_retries)
       THEN /\ fstate' = "raised"
            /\ fresult' = e
            /\ UNCHANGED <<attempt, sleeps>>
       ELSE /\ sleeps' = Append(sleeps, BackoffSleep)
            /\ attempt' = attempt + 1
            /\ IF InRange(attempt + 1, max_retries)
               THEN UNCHANGED <<fstate, fresult>>
               ELSE fstate' = "raised" /\ fresult' = LoopExit(e)

\* the retryable-status branch when raise_for_status did not raise: sleep and continue
RetryLater(o) ==
    /\ sleeps' = sleeps \o RetryAfterSleeps(o) \o <<BackoffSleep>>
    /\ attempt' = attempt + 1
    /\ UNCHANGED last_err
    /\ IF InRange(attempt + 1, max_retries)
       THEN UNCHANGED <<fstate, fresult>>
       ELSE fstate' = "raised" /\ fresult' = LoopExit(last_err)

IsRetryable_always(status) == TRUE
\* `resp.status_code in retry_statuses`
IsRetryable(status) == status \in retry_statuses

\* one iteration of the loop body, for the outcome o of session.get
Attempt(o) ==
    /\ fstate = "running"
    /\ InRange(attempt, max_retries)
    /\ responses' = Append(responses, o)
    /\ UNCHANGED max_retries
    /\ UNCHANGED <<cvars, kvars, pvars, mvars, bvars, hvars>>
    /\ IF o.kind = "exception"
       THEN Caught(NetworkError)
       ELSE IF IsRetryable(o.status)
       THEN IF IsLastAttempt(attempt, max_retries) /\ RaisesForStatus(o.status)
            THEN Caught(HTTPError(o.status))
            ELSE RetryLater(o)
       ELSE IF RaisesForStatus(o.status)
       THEN Caught(HTTPError(o.status))
       ELSE /\ fstate' = "returned"
            /\ fresult' = [err |-> "none", status |-> o.status]
            /\ UNCHANGED <<attempt, sleeps, last_err>>

GetWithRetries == \E o \in Outcomes : Attempt(o)

(***************************************************************************)
(* canonicalize_url applied to drawn inputs.                               *)
(* An input is assembled from parts; a second input is the same parts      *)
(* with another fragment, one more trailing slash on the path, or the      *)
(* scheme and host in upper case, as canon_rel says.                       *)
(***************************************************************************)
Unset == <<"<unset>">>

UpperChar(c) ==
    CASE c = "h" -> "H" [] c = "t" -> "T" [] c = "p" -> "P" [] c = "e" -> "E"
      [] c = "l" -> "L" [] c = "x" -> "X"
      [] OTHER -> c

Upper(s) == [i \in DOMAIN s |-> UpperChar(s[i])]

PartSchemes == {None, <<"h", "t", "t", "p">>, <<"H", "t", "t", "P">>, <<"t", "e", "l">>}
PartHosts == {None, <<>>, <<"h">>, <<"H">>}
PartPaths ==
    {<<>>, <<"/">>, <<"/", "/">>, <<"/", "a">>, <<"/", "a", "/">>,
     <<"/", "a", "/", "/">>}
PartQueries == {None, <<"q">>}
PartFragments == {None, <<"f">>}

UrlParts ==
    [scheme : PartSchemes, host : PartHosts, path : PartPaths,
     query : PartQueries, fragment : PartFragments, padded : BOOLEAN]

\* the string the parts spell
BuildUrl(parts) ==
    LET pad == IF parts.padded THEN <<" ">> ELSE <<>>
    IN  pad
        \o (IF parts.scheme = None THEN <<>> ELSE parts.scheme \o <<":">>)
        \o (IF parts.host = None THEN <<>> ELSE <<"/", "/">> \o parts.host)
        \o parts.path
        \o (IF parts.query = None THEN <<>> ELSE <<"?">> \o parts.query)
        \o (IF parts.fragment = None THEN <<>> ELSE <<"#">> \o parts.fragment)
        \o pad

\* how the second input differs from the first
Relations == [fragment : PartFragments, slash : BOOLEAN, upcase : BOOLEAN]

SameUrl(parts) == [fragment |-> parts.fragment, slash |-> FALSE, upcase |-> FALSE]

Variant(parts, rel) ==
    [parts EXCEPT
        !.fragment = rel.fragment,
        !.path = IF rel.slash THEN @ \o <<"/">> ELSE @,
        !.scheme = IF rel.upcase /\ @ # None THEN Upper(@) ELSE @,
        !.host = IF rel.upcase /\ @ # None THEN Upper(@) ELSE @]

\* the option records explored
CanonOptions ==
    {DefaultOpts,
     [DefaultOpts EXCEPT !.encode_spaces = TRUE],
     [DefaultOpts EXCEPT !.lowercase_scheme_host = FALSE],
     [DefaultOpts EXCEPT !.strip_fragment = FALSE],
     [DefaultOpts EXCEPT !.trim_trailing_slash = FALSE],
     [DefaultOpts EXCEPT !.allowed_host = <<"h">>],
     [DefaultOpts EXCEPT !.allowed_host = <<"H">>],
     [DefaultOpts EXCEPT !.allowed_host = <<"x">>],
     [DefaultOpts EXCEPT !.lowercase_scheme_host = FALSE, !.allowed_host = <<"h">>],
     [DefaultOpts EXCEPT !.lowercase_scheme_host = FALSE, !.allowed_host = <<"H">>],
     [encode_spaces |-> TRUE, lowercase_scheme_host |-> TRUE, strip_fragment |-> FALSE,
      trim_trailing_slash |-> FALSE, allowed_host |-> <<"H">>]}

FetchIdle ==
    /\ max_retries = 0
    /\ attempt = 0
    /\ fstate = "idle"
    /\ responses = <<>>
    /\ sleeps = <<>>
    /\ last_err = NoError
    /\ fresult = NoError

CanonIdle ==
    /\ canon_in = <<>>
    /\ canon_rel = [fragment |-> None, slash |-> FALSE, upcase |-> FALSE]
    /\ canon_opts = DefaultOpts
    /\ canon_out = <<>>
    /\ canon_again = Unset

CrawlIdle ==
    /\ crawler = "none"
    /\ cfg = <<>>
    /\ queue = <<>>
    /\ visited_pages = {}
    /\ skipped_pages = {}
    /\ seen_docs = {}
    /\ out = <<>>
    /\ cstate = "idle"
    /\ fetched = <<>>
    /\ page_entries = <<>>
    /\ record_by_key = <<>>
    /\ politeness = <<>>

\* _ScopedAnchorParser.__init__ and _AnchorParser.__init__
ScopedParserInit ==
    [target_depth |-> 0, in_a |-> FALSE, current_href |-> None,
     current_text_parts |-> <<>>, links |-> <<>>]

AnchorParserInit ==
    [in_a |-> FALSE, current_href |-> None, current_text_parts |-> <<>>, links |-> <<>>]

\* the document before anything is fed
DomInit == [stack |-> <<>>, found |-> FALSE, anchors |-> <<>>, fed |-> 0]

ParseIdle ==
    /\ scoped_parser = ScopedParserInit
    /\ anchor_parser = AnchorParserInit
    /\ dom = DomInit
    /\ pstate = "idle"
    /\ extracted = <<>>

\* nothing computed yet
NoPhones == [norm |-> <<>>, key |-> <<>>]

PhoneIdle ==
    /\ phone_in = [local |-> <<>>, raw |-> <<>>, department_id |-> None]
    /\ phone_out = NoPhones

BackoffIdle ==
    /\ backoff_in = [base |-> 0, jitter |-> 0]
    /\ backoff_attempt = 0
    /\ backoff_out = <<>>

MainIdle ==
    /\ names_left = <<>>
    /\ all_records = <<>>
    /\ written = <<>>
    /\ files = <<>>
    /\ mstate = "idle"

\* strings with one unmatched square bracket, as an href can be
BracketUrls == {<<"/", "/", "[">>, <<" ", "/", "/", "[", " ">>, <<"h", "t", "t", "p", ":", "/", "/", "[">>, <<"/", "/", "h", "]", "/", "a">>, <<"/", "a", "[">>}

\* the arguments of the calls: a URL with a variant of it under the default
\* options, or a URL under other options
CanonInputs ==
    {[opts |-> DefaultOpts, rel |-> rel,
      in |-> <<BuildUrl(parts), BuildUrl(Variant(parts, rel))>>] :
        parts \in UrlParts, rel \in Relations}
    \cup
    {[opts |-> opts, rel |-> SameUrl(parts),
      in |-> <<BuildUrl(parts), BuildUrl(parts)>>] :
        parts \in UrlParts, opts \in CanonOptions \ {DefaultOpts}}
    \cup
    {[opts |-> DefaultOpts, rel |-> [fragment |-> None, slash |-> FALSE, upcase |-> FALSE],
      in |-> <<u, u>>] : u \in BracketUrls}

InitCanon ==
    /\ BackoffIdle
    /\ PhoneIdle
    /\ ParseIdle
    /\ MainIdle
    /\ FetchIdle
    /\ CrawlIdle
    /\ \E c \in CanonInputs :
          /\ canon_opts = c.opts
          /\ canon_rel = c.rel
          /\ canon_in = c.in
    /\ canon_out = <<>>
    /\ canon_again = Unset

\* a caller canonicalizes both inputs
Canonicalize ==
    /\ canon_in # <<>>
    /\ canon_out = <<>>
    /\ canon_out' = <<canonicalize_url(canon_in[1], canon_opts),
                      canonicalize_url(canon_in[2], canon_opts)>>
    /\ UNCHANGED <<canon_in, canon_rel, canon_opts, canon_again>>
    /\ UNCHANGED <<fvars, kvars, pvars, mvars, bvars, hvars>>

\* a caller canonicalizes a URL that canonicalize_url returned
Recanonicalize ==
    /\ canon_out # <<>>
    /\ canon_out[1] # ValueError
    /\ canon_again = Unset
    /\ canon_again' = canonicalize_url(canon_out[1], canon_opts)
    /\ UNCHANGED <<canon_in, canon_rel, canon_opts, canon_out>>
    /\ UNCHANGED <<fvars, kvars, pvars, mvars, bvars, hvars>>

NextCanon == Canonicalize \/ Recanonicalize

SpecCanon == InitCanon /\ [][NextCanon]_vars


InitFetch ==
    /\ BackoffIdle
    /\ PhoneIdle
    /\ ParseIdle
    /\ MainIdle
    /\ max_retries \in 0..MaxRetriesBound
    /\ attempt = 0
    /\ fstate = "running"
    /\ responses = <<>>
    /\ sleeps = <<>>
    /\ last_err = NoError
    /\ fresult = NoError
    /\ CanonIdle
    /\ CrawlIdle

NextFetch == GetWithRetries

SpecFetch == InitFetch /\ [][NextFetch]_vars

(***************************************************************************)
(* The sites the crawlers walk.                                            *)
(* Hosts and paths are short stand-ins for the configured ones: host "h"   *)
(* is the crawl host, "/s/" the section in scope, "/o/" another section of *)
(* the same host, "x" another host.  A page body is what the link          *)
(* extractor returns for it: absolute hrefs in document order, and the     *)
(* PDF URLs the archsd crawler also finds in the raw HTML.                 *)
(***************************************************************************)
UrlA == <<"h", "t", "t", "p", ":", "/", "/", "h", "/", "s", "/", "a">>
UrlB == <<"h", "t", "t", "p", ":", "/", "/", "h", "/", "s", "/", "b">>
UrlBf == <<"H", "T", "T", "P", ":", "/", "/", "H", "/", "s", "/", "b", "/", "#", "f">>
UrlC == <<"h", "t", "t", "p", ":", "/", "/", "h", "/", "s", "/", "c">>
UrlO == <<"h", "t", "t", "p", ":", "/", "/", "h", "/", "o", "/", "p">>
UrlX == <<"h", "t", "t", "p", ":", "/", "/", "x", "/", "s", "/", "b">>
DocD == <<"h", "t", "t", "p", ":", "/", "/", "h", "/", "s", "/", "d", ".", "p", "d", "f">>
DocDf == <<"h", "t", "t", "p", ":", "/", "/", "H", "/", "s", "/", "d", ".", "p", "d", "f", "#", "f">>
DocE == <<"h", "t", "t", "p", ":", "/", "/", "h", "/", "o", "/", "e", ".", "p", "d", "f">>
DocX == <<"h", "t", "t", "p", ":", "/", "/", "x", "/", "s", "/", "d", ".", "p", "d", "f">>
DocG == <<"h", "t", "t", "p", ":", "/", "/", "h", "/", "s", "/", "g", ".", "p", "d", "f">>
MailM == <<"m", "a", "i", "l", "t", "o", ":", "a">>

Hrefs == {UrlA, UrlB, UrlBf, UrlC, UrlO, UrlX, DocD, DocDf, DocE, DocX, DocG, MailM}

\* the bodies a fetched page may turn out to have
PageBodies ==
    {[links |-> <<>>, pdfs_in_html |-> <<>>],
     [links |-> <<UrlB, DocD>>, pdfs_in_html |-> <<>>],
     [links |-> <<UrlBf, UrlC, DocDf>>, pdfs_in_html |-> <<>>],
     [links |-> <<UrlC, DocD, DocE>>, pdfs_in_html |-> <<>>],
     [links |-> <<UrlO, UrlX, DocX, MailM>>, pdfs_in_html |-> <<>>],
     [links |-> <<UrlA, DocE, DocD>>, pdfs_in_html |-> <<>>],
     [links |-> <<UrlC>>, pdfs_in_html |-> <<DocD>>],
     [links |-> <<DocG>>, pdfs_in_html |-> <<>>]}

\* the outcome of fetching a page: a body, or get_with_retries raised
FetchOutcomes ==
    {[ok |-> TRUE, body |-> b] : b \in PageBodies}
    \cup {[ok |-> FALSE, body |-> [links |-> <<>>, pdfs_in_html |-> <<>>]]}

\* canonicalize_url and urlparse are applied to the same few strings in every
\* step; their values are tabulated once from the operators above
CanonDefault == [u \in Hrefs |-> canonicalize_url(u, DefaultOpts)]
CanonEncoded ==
    [u \in Hrefs |-> canonicalize_url(u, [DefaultOpts EXCEPT !.encode_spaces = TRUE])]
CanonUrls == ({CanonDefault[u] : u \in Hrefs} \cup {CanonEncoded[u] : u \in Hrefs}) \ {None}
ParsedUrl == [u \in Hrefs \cup CanonUrls |-> urlparse(u)]
ExtOf == [u \in CanonUrls |-> path_ext(u)]

\* `urlparse(url).netloc.lower()` and `urlparse(url).path`
NetlocLower(url) == Lower(ParsedUrl[url].netloc)
PathOf(url) == ParsedUrl[url].path

\* the characters of the model in code point order, for comparing strings
CodePoints ==
    <<" ", "#", "%", "&", ",", "-", ".", "/", "0", "1", "2", "3", "4", "5", "6", "7",
      "8", "9", ":", ";", ">", "?"
    >> \o Uppers \o <<"_">> \o Lowers \o <<"|">>

Ord(c) == CHOOSE i \in DOMAIN CodePoints : CodePoints[i] = c

\* a < b for two strings
RECURSIVE StrLess(_, _)
StrLess(a, b) ==
    IF a = <<>> THEN b # <<>>
    ELSE IF b = <<>> THEN FALSE
    ELSE IF a[1] = b[1] THEN StrLess(Tail(a), Tail(b))
    ELSE Ord(a[1]) < Ord(b[1])

\* `sorted(keys)` for a set of strings
RECURSIVE SortedStrings(_)
SortedStrings(S) ==
    IF S = {} THEN <<>>
    ELSE LET least == CHOOSE x \in S : \A y \in S \ {x} : StrLess(x, y)
         IN  <<least>> \o SortedStrings(S \ {least})

\* `out.sort(key=lambda r: r.url)`: a stable sort of the records by url
RECURSIVE InsertByUrl(_, _)
InsertByUrl_front(r, s) == <<r>> \o s
InsertByUrl(r, s) ==
    IF s = <<>> THEN <<r>>
    ELSE IF StrLess(r.url, Head(s).url) THEN <<r>> \o s
    ELSE <<Head(s)>> \o InsertByUrl(r, Tail(s))

RECURSIVE SortByUrl(_)
SortByUrl(s) ==
    IF s = <<>> THEN <<>>
    ELSE InsertByUrl(s[Len(s)], SortByUrl(SubSeq(s, 1, Len(s) - 1)))

\* `links[:max_out_links_per_page]` when max_out_links_per_page > 0
Truncate(links, max_out_links_per_page) ==
    IF max_out_links_per_page > 0
    THEN SubSeq(links, 1, Min({Len(links), max_out_links_per_page}))
    ELSE links

\* the end of a crawl() that returns: the frontier loops of devb and archsd
\* sort their records by url, the emsd loop returns them as collected
Returned(records) ==
    /\ cstate' = "done"
    /\ out' = records

\* the end of a crawl() that raises: the fetch error leaves crawl(), nothing is returned
Raised ==
    /\ cstate' = "raised"
    /\ UNCHANGED out

(***************************************************************************)
(* devb_publications: Crawler.crawl, the general branch.  The pages of the *)
(* model lie outside the three sub-sections that have parsers of their     *)
(* own (construction site safety manual and the two standard-document      *)
(* sections), so every fetched page takes the general branch.              *)
(***************************************************************************)
\* the largest max_depth, max_pages, max_total_records and
\* max_out_links_per_page explored
MaxDepthBound == 2
MaxPagesBound == 4
MaxRecordsBound == 3
MaxOutLinksBound == 2

\* `urlparse(base_url).netloc.lower()`
base_netloc == <<"h">>

\* _ALLOWED_DOC_EXTS of devb_publications
devb_ALLOWED_DOC_EXTS == {<<".", "p", "d", "f">>, <<".", "d", "o", "c">>, <<".", "d", "o", "c", "x">>}

\* _canonicalize_url of devb_publications: canonicalize_url(url, encode_spaces=True)
devb_canonicalize_url(url) == CanonEncoded[url]

\* _path_is_excluded
path_is_excluded(path, excluded_prefixes) ==
    \E i \in DOMAIN excluded_prefixes :
        /\ excluded_prefixes[i] # <<>>
        /\ IF EndsWith(excluded_prefixes[i], <<"/">>)
           THEN StartsWith(IF path = <<>> THEN <<"/">> ELSE path, excluded_prefixes[i])
           ELSE \/ (IF path = <<>> THEN <<"/">> ELSE path) = excluded_prefixes[i]
                \/ StartsWith(IF path = <<>> THEN <<"/">> ELSE path,
                              excluded_prefixes[i] \o <<"/">>)

\* the configurations explored: one setting at a time is varied
DevbBase ==
    [seed_url |-> UrlA, scope_prefix |-> <<"/", "s", "/">>, excluded_prefixes |-> <<>>,
     explicit_allowed_page_paths |-> {}, allowed_page_path_prefixes |-> <<>>,
     allowed_pdf_path_prefixes |-> <<>>,
     max_depth |-> MaxDepthBound, max_pages |-> MaxPagesBound,
     max_out_links_per_page |-> 0, max_total_records |-> MaxRecordsBound,
     request_delay_seconds |-> 2, request_jitter_seconds |-> 0]

\* request_delay_seconds and request_jitter_seconds, in quarter seconds
PaceSettings == {<<0, 0>>, <<0, 1>>, <<2, 1>>}

DevbConfigs ==
    {[DevbBase EXCEPT !.max_depth = n] : n \in 0..MaxDepthBound}
    \cup {[DevbBase EXCEPT !.max_pages = n] : n \in 1..MaxPagesBound}
    \cup {[DevbBase EXCEPT !.max_total_records = n] : n \in 1..MaxRecordsBound}
    \cup {[DevbBase EXCEPT !.max_out_links_per_page = n] : n \in 0..MaxOutLinksBound}
    \cup {[DevbBase EXCEPT !.excluded_prefixes = <<<<"/", "s", "/", "c">>>>, !.seed_url = u] :
            u \in {UrlA, UrlC}}
    \cup {[DevbBase EXCEPT !.seed_url = UrlO]}
    \cup {[DevbBase EXCEPT !.request_delay_seconds = s[1],
                            !.request_jitter_seconds = s[2]] : s \in PaceSettings}

\* _QueueItem
QueueItem(url, depth, discovered_from) ==
    [url |-> url, depth |-> depth, discovered_from |-> discovered_from]

\* RunContext: main reads the clock once, before any crawler runs; times are
\* counted in clock readings from there
ctx == [started_at_utc |-> 0]

\* the UrlRecord of a document: url, source and the meta fields that place it
DocRecord(source, can, item) ==
    [url |-> can, source |-> source, discovered_at_utc |-> ctx.started_at_utc,
     discovered_from |-> item.url, depth |-> item.depth]

Enqueue_front(q, item) == <<item>> \o q
\* `queue.append(_QueueItem(...))`; the loop takes `queue.pop(0)`
Enqueue(q, item) == Append(q, item)

\* `if item.url in visited_pages: continue`
AlreadyVisited_never(url, visited) == FALSE
AlreadyVisited(url, visited) == url \in visited

\* `if item.depth >= max_depth: continue`
DepthReached_late(depth, max_depth) == depth > max_depth
DepthReached(depth, max_depth) == depth >= max_depth

\* `if can in seen_docs: continue`
SeenDoc_never(can, seen) == FALSE
SeenDoc(can, seen) == can \in seen

\* the document branch of the link loop: host check, seen_docs, out.append,
\* and `if len(out) >= max_total_records: break`
DevbDocument(can, item, st) ==
    IF NetlocLower(can) # base_netloc THEN st
    ELSE IF SeenDoc(can, st.seen_docs) THEN st
    ELSE [st EXCEPT !.seen_docs = @ \cup {can},
                    !.out = Append(@, DocRecord("devb_publications", can, item)),
                    !.broke = Len(st.out) + 1 >= cfg.max_total_records]

\* the page branch of the link loop: depth, host, scope_prefix, exclusions,
\* and `if can not in visited_pages: queue.append(...)`
DevbPageLink(can, item, st) ==
    IF DepthReached(item.depth, cfg.max_depth) THEN st
    ELSE IF NetlocLower(can) # base_netloc THEN st
    ELSE IF ~StartsWith(PathOf(can), cfg.scope_prefix) THEN st
    ELSE IF path_is_excluded(PathOf(can), cfg.excluded_prefixes) THEN st
    ELSE IF can \in visited_pages \cup {item.url} THEN st
    ELSE [st EXCEPT !.queue = Enqueue(@, QueueItem(can, item.depth + 1, item.url))]

\* one link, once canonicalized
DevbLink(can, item, st) ==
    IF can = None THEN st
    ELSE IF ExtOf[can] \in devb_ALLOWED_DOC_EXTS THEN DevbDocument(can, item, st)
    ELSE DevbPageLink(can, item, st)

\* `for link in links`, left to right, until the break
RECURSIVE DevbLinks(_, _, _)
DevbLinks(links, item, st) ==
    IF links = <<>> \/ st.broke THEN st
    ELSE DevbLinks(Tail(links), item,
                   DevbLink(devb_canonicalize_url(Head(links)), item, st))

\* the rest of an iteration after the link loop: the loop ends on the record
\* cap or on an empty queue, and crawl() sorts and returns
AfterLinks(st) ==
    /\ queue' = st.queue
    /\ seen_docs' = st.seen_docs
    /\ IF Len(st.out) >= cfg.max_total_records \/ st.queue = <<>>
       THEN Returned(SortByUrl(st.out))
       ELSE out' = st.out /\ UNCHANGED cstate

\* an iteration that ends in `continue` or in the max_pages `break`
DropItem_requeue(rest, stop, sorted) ==
    /\ queue' = Append(rest, Head(queue))
    /\ UNCHANGED <<out, cstate>>
DropItem(rest, stop, sorted) ==
    /\ queue' = rest
    /\ IF stop \/ rest = <<>>
       THEN Returned(IF sorted THEN SortByUrl(out) ELSE out)
       ELSE UNCHANGED <<out, cstate>>

\* `if request_delay_seconds > 0: _sleep_seconds(request_delay_seconds +
\* random.uniform(0.0, request_jitter_seconds))`, ahead of the fetch
SleepBeforeFetch ==
    IF cfg.request_delay_seconds > 0
    THEN \E u \in 0..cfg.request_jitter_seconds :
            politeness' = Append(politeness,
                                 [fetches |-> Len(fetched), visited |-> visited_pages',
                                  seconds |-> cfg.request_delay_seconds + u])
    ELSE UNCHANGED politeness

\* the fetch of an iteration and what follows it
DevbFetch(item, rest, o) ==
    /\ visited_pages' = visited_pages \cup {item.url}
    /\ SleepBeforeFetch
    /\ fetched' = Append(fetched, [url |-> item.url, depth |-> item.depth,
                                   ok |-> o.ok, body |-> o.body,
                                   emitted |-> Len(out)])
    /\ UNCHANGED skipped_pages
    /\ IF o.ok
       THEN AfterLinks(
                DevbLinks(Truncate(o.body.links, cfg.max_out_links_per_page), item,
                          [queue |-> rest, seen_docs |-> seen_docs, out |-> out,
                           broke |-> FALSE]))
       ELSE Raised /\ queue' = rest /\ UNCHANGED seen_docs

\* one iteration of `while queue`
DevbIteration(item, rest, o) ==
    IF \/ AlreadyVisited(item.url, visited_pages)
       \/ item.url \in skipped_pages
    THEN DropItem(rest, FALSE, TRUE)
         /\ UNCHANGED <<visited_pages, skipped_pages, seen_docs, fetched, politeness>>
    ELSE IF Cardinality(visited_pages) >= cfg.max_pages
    THEN DropItem(rest, TRUE, TRUE)
         /\ UNCHANGED <<visited_pages, skipped_pages, seen_docs, fetched, politeness>>
    ELSE IF NetlocLower(item.url) # base_netloc
    THEN DropItem(rest, FALSE, TRUE)
         /\ UNCHANGED <<visited_pages, skipped_pages, seen_docs, fetched, politeness>>
    ELSE IF path_is_excluded(PathOf(item.url), cfg.excluded_prefixes)
    THEN DropItem(rest, FALSE, TRUE)
         /\ skipped_pages' = skipped_pages \cup {item.url}
         /\ UNCHANGED <<visited_pages, seen_docs, fetched, politeness>>
    ELSE IF ~StartsWith(PathOf(item.url), cfg.scope_prefix)
    THEN DropItem(rest, FALSE, TRUE)
         /\ UNCHANGED <<visited_pages, skipped_pages, seen_docs, fetched, politeness>>
    ELSE DevbFetch(item, rest, o)

DevbStep ==
    /\ crawler = "devb_publications"
    /\ cstate = "running"
    /\ queue # <<>>
    /\ \E o \in FetchOutcomes : DevbIteration(Head(queue), Tail(queue), o)
    /\ UNCHANGED <<crawler, cfg, page_entries, record_by_key>>
    /\ UNCHANGED <<fvars, cvars, pvars, mvars, bvars, hvars>>

(***************************************************************************)
(* archsd_practices_and_guidelines: Crawler.crawl                          *)
(***************************************************************************)
\* _ALLOWED_DOC_EXTS of archsd_practices_and_guidelines
archsd_ALLOWED_DOC_EXTS == {<<".", "p", "d", "f">>}

\* _canonicalize_url of archsd_practices_and_guidelines: canonicalize_url
archsd_canonicalize_url(url) == CanonDefault[url]

\* _path_starts_with_any
path_starts_with_any_open(path, prefixes) == TRUE
path_starts_with_any(path, prefixes) ==
    IF prefixes = <<>> THEN TRUE
    ELSE \E i \in DOMAIN prefixes :
            /\ prefixes[i] # <<>>
            /\ StartsWith(IF path = <<>> THEN <<"/">> ELSE path, prefixes[i])

\* _path_is_explicitly_allowed
path_is_explicitly_allowed(path, allowed_paths) ==
    \/ (IF path = <<>> THEN <<"/">> ELSE path) \in allowed_paths
    \/ /\ ~StartsWith(IF path = <<>> THEN <<"/">> ELSE path, <<"/">>)
       /\ (<<"/">> \o path) \in allowed_paths

\* the leaf pages crawl() always adds to the explicit allow-list
hub_leaf_paths ==
    {<<"/", "e", "n", "/", "r", "e", "p", "o", "r", "t", "s", "/", "d", "i", "s", "c", "l", "a", "i", "m", "e", "r", "-", "f", "o", "r", "-", "B", "I", "M", "-", "g", "u", "i", "d", "e", "s", ".", "h", "t", "m", "l">>,
     <<"/", "e", "n", "/", "B", "I", "M", "-", "g", "u", "i", "d", "e", "s", "/", "i", "n", "d", "e", "x", ".", "h", "t", "m", "l">>,
     <<"/", "e", "n", "/", "c", "o", "n", "s", "u", "l", "t", "a", "n", "t", "s", "-", "c", "o", "n", "t", "r", "a", "c", "t", "o", "r", "s", "/", "p", "r", "o", "d", "u", "c", "t", "-", "c", "o", "n", "f", "o", "r", "m", "i", "t", "y", "-", "c", "e", "r", "t", "i", "f", "i", "c", "a", "t", "i", "o", "n", "-", "s", "c", "h", "e", "m", "e", "s", ".", "h", "t", "m", "l">>}

\* explicit_allowed_paths: the configured paths, the start path and the leaf pages
explicit_allowed_paths ==
    cfg.explicit_allowed_page_paths
    \cup {IF PathOf(archsd_canonicalize_url(cfg.seed_url)) = <<>>
          THEN <<"/">> ELSE PathOf(archsd_canonicalize_url(cfg.seed_url))}
    \cup hub_leaf_paths

\* `[str(v).strip() for v in raw if isinstance(v, str) and str(v).strip()]`
RECURSIVE StrippedNonEmpty(_)
StrippedNonEmpty(raw) ==
    IF raw = <<>> THEN <<>>
    ELSE (IF Strip(Head(raw)) = <<>> THEN <<>> ELSE <<Strip(Head(raw))>>)
         \o StrippedNonEmpty(Tail(raw))

\* the page scope test of crawl(), at pop time and at enqueue time
InPageScope(path) ==
    \/ path_is_explicitly_allowed(path, explicit_allowed_paths)
    \/ path_starts_with_any(path, cfg.allowed_page_path_prefixes)

\* the values of allowed_page_path_prefixes in the settings
PagePrefixSettings == {<<<<"/", "s", "/">>>>, <<<<"/", "o", "/">>>>, <<<<" ", "/", "s", "/", " ">>, <<" ">>>>, <<>>, <<<<" ">>>>}

ArchsdBase ==
    [seed_url |-> UrlA, scope_prefix |-> <<>>, excluded_prefixes |-> <<>>,
     explicit_allowed_page_paths |-> {},
     allowed_page_path_prefixes |-> <<<<"/", "s", "/">>>>,
     allowed_pdf_path_prefixes |-> <<>>,
     max_depth |-> MaxDepthBound, max_pages |-> MaxPagesBound,
     max_out_links_per_page |-> 0, max_total_records |-> MaxRecordsBound,
     request_delay_seconds |-> 1, request_jitter_seconds |-> 0]

ArchsdConfigs ==
    {[ArchsdBase EXCEPT !.allowed_page_path_prefixes = StrippedNonEmpty(raw)] :
        raw \in PagePrefixSettings}
    \cup {[ArchsdBase EXCEPT !.max_depth = n] : n \in 0..MaxDepthBound}
    \cup {[ArchsdBase EXCEPT !.max_pages = n] : n \in 1..MaxPagesBound}
    \cup {[ArchsdBase EXCEPT !.max_total_records = n] : n \in 1..MaxRecordsBound}
    \cup {[ArchsdBase EXCEPT !.max_out_links_per_page = n] : n \in 0..MaxOutLinksBound}
    \cup {[ArchsdBase EXCEPT !.allowed_pdf_path_prefixes = <<<<"/", "s", "/">>>>],
          [ArchsdBase EXCEPT !.explicit_allowed_page_paths = {<<"/", "o", "/", "p">>}]}

\* the keys of doc_url_to_text: the canonical URLs with an allowed document
\* extension among the links and among the PDF URLs found in the HTML
RECURSIVE ArchsdDocUrls(_)
ArchsdDocUrls(hrefs) ==
    IF hrefs = <<>> THEN {}
    ELSE (IF /\ archsd_canonicalize_url(Head(hrefs)) # None
             /\ ExtOf[archsd_canonicalize_url(Head(hrefs))] \in archsd_ALLOWED_DOC_EXTS
          THEN {archsd_canonicalize_url(Head(hrefs))}
          ELSE {})
         \cup ArchsdDocUrls(Tail(hrefs))

\* one document of `for can in sorted(doc_url_to_text.keys())`
ArchsdDocument(can, item, st) ==
    IF NetlocLower(can) # base_netloc THEN st
    ELSE IF /\ cfg.allowed_pdf_path_prefixes # <<>>
            /\ ~path_starts_with_any(PathOf(can), cfg.allowed_pdf_path_prefixes)
    THEN st
    ELSE IF SeenDoc(can, st.seen_docs) THEN st
    ELSE [st EXCEPT !.seen_docs = @ \cup {can},
                    !.out = Append(@, DocRecord("archsd_practices_and_guidelines",
                                                can, item)),
                    !.broke = Len(st.out) + 1 >= cfg.max_total_records]

RECURSIVE ArchsdDocuments(_, _, _)
ArchsdDocuments(cans, item, st) ==
    IF cans = <<>> \/ st.broke THEN st
    ELSE ArchsdDocuments(Tail(cans), item, ArchsdDocument(Head(cans), item, st))

\* one link of the second `for link in links`: the pages to enqueue
ArchsdPageLink(can, item, st) ==
    IF can = None THEN st
    ELSE IF ExtOf[can] \in archsd_ALLOWED_DOC_EXTS THEN st
    ELSE IF NetlocLower(can) # base_netloc THEN st
    ELSE IF ~InPageScope(PathOf(can)) THEN st
    ELSE IF can \in visited_pages \cup {item.url} THEN st
    ELSE [st EXCEPT !.queue = Enqueue(@, QueueItem(can, item.depth + 1, item.url))]

RECURSIVE ArchsdPageLinks(_, _, _)
ArchsdPageLinks(links, item, st) ==
    IF links = <<>> THEN st
    ELSE ArchsdPageLinks(Tail(links), item,
                         ArchsdPageLink(archsd_canonicalize_url(Head(links)), item, st))

\* after the documents: the record cap ends the loop; at max_depth the page's
\* links are not enqueued; an empty queue ends the loop
ArchsdAfterDocuments(links, item, st) ==
    IF Len(st.out) >= cfg.max_total_records
    THEN AfterLinks(st)
    ELSE IF DepthReached(item.depth, cfg.max_depth)
    THEN AfterLinks(st)
    ELSE AfterLinks(ArchsdPageLinks(links, item, st))

ArchsdFetch(item, rest, o) ==
    /\ visited_pages' = visited_pages \cup {item.url}
    /\ SleepBeforeFetch
    /\ fetched' = Append(fetched, [url |-> item.url, depth |-> item.depth,
                                   ok |-> o.ok, body |-> o.body,
                                   emitted |-> Len(out)])
    /\ UNCHANGED skipped_pages
    /\ IF o.ok
       THEN ArchsdAfterDocuments(
                Truncate(o.body.links, cfg.max_out_links_per_page), item,
                ArchsdDocuments(
                    SortedStrings(
                        ArchsdDocUrls(Truncate(o.body.links, cfg.max_out_links_per_page)
                                      \o o.body.pdfs_in_html)),
                    item,
                    [queue |-> rest, seen_docs |-> seen_docs, out |-> out,
                     broke |-> FALSE]))
       ELSE Raised /\ queue' = rest /\ UNCHANGED seen_docs

\* one iteration of `while queue`
ArchsdIteration(item, rest, o) ==
    IF \/ AlreadyVisited(item.url, visited_pages)
       \/ item.url \in skipped_pages
    THEN DropItem(rest, FALSE, TRUE)
         /\ UNCHANGED <<visited_pages, skipped_pages, seen_docs, fetched, politeness>>
    ELSE IF Cardinality(visited_pages) >= cfg.max_pages
    THEN DropItem(rest, TRUE, TRUE)
         /\ UNCHANGED <<visited_pages, skipped_pages, seen_docs, fetched, politeness>>
    ELSE IF NetlocLower(item.url) # base_netloc
    THEN DropItem(rest, FALSE, TRUE)
         /\ UNCHANGED <<visited_pages, skipped_pages, seen_docs, fetched, politeness>>
    ELSE IF ~InPageScope(PathOf(item.url))
    THEN DropItem(rest, FALSE, TRUE)
         /\ skipped_pages' = skipped_pages \cup {item.url}
         /\ UNCHANGED <<visited_pages, seen_docs, fetched, politeness>>
    ELSE ArchsdFetch(item, rest, o)

ArchsdStep ==
    /\ crawler = "archsd_practices_and_guidelines"
    /\ cstate = "running"
    /\ queue # <<>>
    /\ \E o \in FetchOutcomes : ArchsdIteration(Head(queue), Tail(queue), o)
    /\ UNCHANGED <<crawler, cfg, page_entries, record_by_key>>
    /\ UNCHANGED <<fvars, cvars, pvars, mvars, bvars, hvars>>

(***************************************************************************)
(* emsd.regulating_railway_safety: Crawler.crawl                           *)
(***************************************************************************)
\* the prefix a sub-page URL must start with
emsd_prefix == <<"h", "t", "t", "p", ":", "/", "/", "h", "/", "s">>

\* `url.split("#")[0]`
BeforeFragment(url) ==
    IF FindFrom(url, "#", 1) = 0 THEN url ELSE SubSeq(url, 1, FindFrom(url, "#", 1) - 1)

EmsdConfigs ==
    {[DevbBase EXCEPT !.seed_url = u] : u \in {UrlA, UrlBf}}
    \cup {[DevbBase EXCEPT !.request_delay_seconds = s[1],
                            !.request_jitter_seconds = s[2]] : s \in PaceSettings}

\* one link of `for link in links`: a PDF becomes a record, a sub-page is
\* queued unless it is visited or queued already
EmsdLink(abs_url, normalized_url, st) ==
    IF EndsWith(Lower(PathOf(abs_url)), <<".", "p", "d", "f">>)
    THEN [st EXCEPT !.out = Append(@, [url |-> abs_url,
                                       source |-> "emsd.regulating_railway_safety",
                                       discovered_at_utc |-> ctx.started_at_utc,
                                       discovered_from |-> normalized_url,
                                       depth |-> 0])]
    ELSE IF /\ StartsWith(abs_url, emsd_prefix)
            /\ BeforeFragment(abs_url) \notin visited_pages \cup {normalized_url}
            /\ BeforeFragment(abs_url) \notin Range(st.queue)
    THEN [st EXCEPT !.queue = Append(@, BeforeFragment(abs_url))]
    ELSE st

RECURSIVE EmsdLinks(_, _, _)
EmsdLinks(links, normalized_url, st) ==
    IF links = <<>> THEN st
    ELSE EmsdLinks(Tail(links), normalized_url,
                   EmsdLink(Head(links), normalized_url, st))

\* the rest of an iteration: the loop ends on an empty queue and crawl()
\* returns the records in the order collected
EmsdAfterLinks(st) ==
    /\ queue' = st.queue
    /\ IF st.queue = <<>>
       THEN Returned(st.out)
       ELSE out' = st.out /\ UNCHANGED cstate

\* the outcomes of a fetch: those of the other crawlers, and a page that
\* links two sub-pages under the prefix
EmsdOutcomes ==
    FetchOutcomes
    \cup {[ok |-> TRUE, body |-> [links |-> <<UrlB, UrlC, DocD>>, pdfs_in_html |-> <<>>]]}

\* `except Exception as e: logger.error(...); continue`
EmsdFetchFailed_raise(rest) == Raised /\ queue' = rest
EmsdFetchFailed(rest) == DropItem(rest, FALSE, FALSE)

\* one iteration of `while queue`; a failed fetch is logged and the loop goes on
EmsdIteration(normalized_url, rest, o) ==
    IF AlreadyVisited(normalized_url, visited_pages)
    THEN DropItem(rest, FALSE, FALSE)
         /\ UNCHANGED <<visited_pages, fetched, politeness>>
    ELSE /\ visited_pages' = visited_pages \cup {normalized_url}
         /\ SleepBeforeFetch
         /\ fetched' = Append(fetched, [url |-> normalized_url, depth |-> 0,
                                        ok |-> o.ok, body |-> o.body,
                                   emitted |-> Len(out)])
         /\ IF o.ok
            THEN EmsdAfterLinks(EmsdLinks(o.body.links, normalized_url,
                                          [queue |-> rest, out |-> out]))
            ELSE EmsdFetchFailed(rest)

EmsdStep ==
    /\ crawler = "emsd.regulating_railway_safety"
    /\ cstate = "running"
    /\ queue # <<>>
    /\ \E o \in EmsdOutcomes :
          EmsdIteration(BeforeFragment(Head(queue)), Tail(queue), o)
    /\ UNCHANGED <<crawler, cfg, skipped_pages, seen_docs, page_entries, record_by_key>>
    /\ UNCHANGED <<fvars, cvars, pvars, mvars, bvars, hvars>>

(***************************************************************************)
(* directory.tel_directory: URL and breadcrumb helpers                     *)
(***************************************************************************)
\* _TEL_HOST, a short stand-in for tel.directory.gov.hk
TEL_HOST == <<"t">>

\* the path of _canonicalize_tel_url: `p.path or "/"`, then rstrip("/") unless root
TelPath(path) ==
    IF path = <<>> THEN <<"/">>
    ELSE IF path # <<"/">> /\ EndsWith(path, <<"/">>) THEN RStrip(path, "/")
    ELSE path

TelCanonParsed(p) ==
    IF p.scheme = <<>> \/ p.netloc = <<>> THEN None
    ELSE IF Lower(p.netloc) # TEL_HOST THEN None
    ELSE urlunparse([scheme |-> Lower(p.scheme), netloc |-> Lower(p.netloc),
                     path |-> TelPath(p.path), params |-> p.params,
                     query |-> p.query, fragment |-> <<>>])

\* _canonicalize_tel_url
canonicalize_tel_url(url) ==
    IF Strip(url) = <<>> THEN None ELSE TelCanonParsed(urlparse(Strip(url)))

\* `sub in s`
Contains(s, sub) ==
    \E i \in 1..(Len(s) - Len(sub) + 1) : SubSeq(s, i, i + Len(sub) - 1) = sub

CrawlablePath(path) ==
    /\ EndsWith(path, <<"_", "e", "n", "g", ".", "h", "t", "m", "l">>)
    /\ ~Contains(path, <<"/", "z", "i", "p", "i", "n", "s", "t", "r", "u", "c", "t", "/">>)

\* _is_crawlable_tel_page
is_crawlable_tel_page(url) ==
    /\ canonicalize_tel_url(url) # None
    /\ CrawlablePath(Lower(urlparse(canonicalize_tel_url(url)).path))

\* `" ".join(value.split())`: runs of spaces become one space, outer ones go
RECURSIVE CollapseSpaces(_)
CollapseSpaces(s) ==
    IF s = <<>> THEN <<>>
    ELSE IF s[1] = " " /\ (Len(s) = 1 \/ s[2] = " ") THEN CollapseSpaces(Tail(s))
    ELSE <<s[1]>> \o CollapseSpaces(Tail(s))

JoinSplit(s) == LStrip(CollapseSpaces(s), " ")

\* _normalize_department_id
normalize_department_id(value) ==
    IF value = None THEN None
    ELSE IF JoinSplit(value) = <<>> THEN None
    ELSE JoinSplit(value)

\* `" -> ".join(path)`
RECURSIVE JoinPath(_)
JoinPath(path) ==
    IF path = <<>> THEN <<>>
    ELSE IF Len(path) = 1 THEN path[1]
    ELSE path[1] \o <<" ", "-", ">", " ">> \o JoinPath(Tail(path))

\* _department_id_from_path
department_id_from_path(path) ==
    IF path = <<>> THEN None ELSE normalize_department_id(JoinPath(path))

\* _dedup_key: f"{phone_norm}|{d}"
dedup_key(phone_norm, department_id) ==
    phone_norm \o <<"|">>
    \o (IF normalize_department_id(department_id) = None
        THEN <<>>
        ELSE normalize_department_id(department_id))

\* _effective_department_path
effective_department_path_full(dept_path, is_enquiry_like, department_root) == dept_path
effective_department_path(dept_path, is_enquiry_like, department_root) ==
    IF dept_path = <<>> /\ department_root = None THEN <<>>
    ELSE IF is_enquiry_like
    THEN IF normalize_department_id(department_root) # None
         THEN <<normalize_department_id(department_root)>>
         ELSE IF dept_path # <<>> THEN <<dept_path[1]>> ELSE <<>>
    ELSE dept_path

\* _record_department_root
record_department_root(dept_override, dept_path) ==
    IF dept_override # None /\ dept_override # <<>>
    THEN normalize_department_id(dept_override)
    ELSE IF dept_path # <<>> THEN normalize_department_id(dept_path[1])
    ELSE None

\* _department_id, local to crawl()
department_id(is_enquiry_like, department_root, dept_path) ==
    IF is_enquiry_like
    THEN normalize_department_id(department_root)
    ELSE department_id_from_path(dept_path)

\* _set_department_path: `meta["department_paths"] = [path]` or []
set_department_path(path) == IF path # <<>> THEN <<path>> ELSE <<>>

\* _SKIP_DEPT_SEGMENTS
SKIP_DEPT_SEGMENTS ==
    {<<"b", "a", "c", "k">>, <<"h", "e", "l", "p">>, <<"d", "i", "s", "c", "l", "a", "i", "m", "e", "r">>, <<"c", "o", "p", "y", "r", "i", "g", "h", "t", " ", "n", "o", "t", "i", "c", "e">>, <<"s", "k", "i", "p", " ", "t", "o", " ", "c", "o", "n", "t", "e", "n", "t">>, <<"g", "o", "v", "h", "k">>}

\* _ALPHA_INDEX_SEGMENT_RE: one capital or digit, then any number of
\* "-"-separated further ones
IndexChars == {"A", "B", "D", "E", "F", "H", "J", "L", "P", "S", "T", "X", "0", "1", "2"}

RECURSIVE IsAlphaIndex(_)
IsAlphaIndex(t) ==
    /\ t # <<>>
    /\ t[1] \in IndexChars
    /\ \/ Len(t) = 1
       \/ /\ LStrip(Tail(t), " ") # <<>>
          /\ Head(LStrip(Tail(t), " ")) = "-"
          /\ IsAlphaIndex(LStrip(Tail(LStrip(Tail(t), " ")), " "))

\* _clean_department_segment, for the whitespace-normalized text t
CleanNormalized(t) ==
    IF t = <<>> THEN None
    ELSE IF IsAlphaIndex(t) THEN None
    ELSE IF Lower(t) \in SKIP_DEPT_SEGMENTS THEN None
    ELSE IF StartsWith(Lower(t), <<"s", "k", "i", "p", " ", "t", "o">>) THEN None
    ELSE t

clean_department_segment(text) == CleanNormalized(JoinSplit(text))

\* the breadcrumb of a link's target when the office tree does not know it:
\* the current breadcrumb, extended by the link text unless it repeats the last label
NextPathFromText(dept_path, seg) ==
    IF seg = None THEN dept_path
    ELSE IF dept_path # <<>> /\ Lower(Strip(dept_path[Len(dept_path)])) = Lower(Strip(seg))
    THEN dept_path
    ELSE Append(dept_path, seg)

(***************************************************************************)
(* directory.tel_directory: the site and Crawler.crawl                     *)
(* A page body is what the parsers return for it: the dict of              *)
(* _extract_office_tree_paths, the list of _extract_people_from_html and   *)
(* the links of extract_links with their texts.                            *)
(***************************************************************************)
TelI == <<"h", "t", "t", "p", ":", "/", "/", "t", "/", "i", "_", "e", "n", "g", ".", "h", "t", "m", "l">>
TelP == <<"h", "t", "t", "p", ":", "/", "/", "t", "/", "p", "_", "e", "n", "g", ".", "h", "t", "m", "l">>
TelPf == <<"H", "T", "T", "P", ":", "/", "/", "T", "/", "p", "_", "e", "n", "g", ".", "h", "t", "m", "l", "#", "f">>
TelQ == <<"h", "t", "t", "p", ":", "/", "/", "t", "/", "q", "_", "e", "n", "g", ".", "h", "t", "m", "l">>
TelZ == <<"h", "t", "t", "p", ":", "/", "/", "t", "/", "z", ".", "h", "t", "m", "l">>
TelX == <<"h", "t", "t", "p", ":", "/", "/", "x", "/", "p", "_", "e", "n", "g", ".", "h", "t", "m", "l">>
PersonU == <<"h", "t", "t", "p", ":", "/", "/", "t", "/", "u", "1">>
\* the href of a row's name anchor, absolute as the table parser leaves it
ServiceHref == <<"h", "t", "t", "p", ":", "/", "/", "T", "/", "u", "2", "/", "#", "f">>
ScriptHref == <<"j", "a", "v", "a", "s", "c", "r", "i", "p", "t", ":", "x">>

TelHrefs == {TelI, TelP, TelPf, TelQ, TelZ, TelX}

\* breadcrumb labels and link texts
LabelBa == <<"B", "a">>
LabelBb == <<"B", "b">>
LabelD1 == <<"D", "1">>
LabelD2 == <<"D", "2">>

\* the rows of a page's tables that carry a name link: the name, the text of
\* the Office Tel cell, the href of the name, and what _is_enquiry_like and
\* the department cell give
RowAnn ==
    [name |-> "Ann", office_tel |-> <<"O", "f", "f", "i", "c", "e", " ", "T", "e", "l", " ", "(", "8", "5", "2", ")", " ", "2", "3", "4", "5", " ", "6", "7", "8", "9">>, name_href |-> PersonU,
     is_enquiry_like |-> FALSE, department_override |-> None]
RowEnquiry ==
    [name |-> "Enquiry", office_tel |-> <<"2", "3", "4", "5", " ", "6", "7", "8", "0">>, name_href |-> ScriptHref,
     is_enquiry_like |-> TRUE, department_override |-> None]
RowServiceBb ==
    [name |-> "Hotline", office_tel |-> <<"+", "8", "5", "2", " ", "2", "3", "4", "5", "-", "6", "7", "8", "0">>, name_href |-> ServiceHref,
     is_enquiry_like |-> TRUE, department_override |-> LabelBb]
RowService ==
    [name |-> "Hotline", office_tel |-> <<"+", "8", "5", "2", " ", "2", "3", "4", "5", "-", "6", "7", "8", "0">>, name_href |-> ServiceHref,
     is_enquiry_like |-> TRUE, department_override |-> None]
\* a row whose Office Tel cell holds no digit
RowNoTel ==
    [name |-> "Bob", office_tel |-> <<"O", "f", "f", "i", "c", "e", " ", "T", "e", "l", " ", "N", "/", "A">>, name_href |-> PersonU,
     is_enquiry_like |-> FALSE, department_override |-> None]

\* _strip_prefix(text, prefix), for a non-empty prefix
strip_prefix(text, prefix) ==
    IF StartsWith(Lower(Strip(text)), Lower(prefix))
    THEN Strip(SubSeq(Strip(text), Len(prefix) + 1, Len(Strip(text))))
    ELSE Strip(text)

\* `"".join(_PHONE_DIGITS_RE.findall(s))`
RECURSIVE DigitsOf_spaced(_)
DigitsOf_spaced(s) ==
    IF s = <<>> THEN <<>>
    ELSE (IF IsDigit(s[1]) \/ s[1] = " " THEN <<s[1]>> ELSE <<>>) \o DigitsOf_spaced(Tail(s))
RECURSIVE DigitsOf(_)
DigitsOf(s) ==
    IF s = <<>> THEN <<>>
    ELSE (IF IsDigit(s[1]) THEN <<s[1]>> ELSE <<>>) \o DigitsOf(Tail(s))

\* `if digits.startswith("852") and len(digits) > 8: digits = digits[3:]`
DropCountryCode_always(digits) ==
    IF StartsWith(digits, <<"8", "5", "2">>) THEN SubSeq(digits, 4, Len(digits)) ELSE digits
DropCountryCode(digits) ==
    IF StartsWith(digits, <<"8", "5", "2">>) /\ Len(digits) > 8
    THEN SubSeq(digits, 4, Len(digits))
    ELSE digits

\* _normalize_phone
normalize_phone(value) ==
    IF Strip(value) = <<>> THEN None
    ELSE IF DigitsOf(Strip(value)) = <<>> THEN None
    ELSE DropCountryCode(DigitsOf(Strip(value)))

\* the dict _extract_people_from_html appends for a row
PersonDict(row) ==
    [name |-> row.name,
     office_tel_norm |-> normalize_phone(strip_prefix(row.office_tel, <<"O", "f", "f", "i", "c", "e", " ", "T", "e", "l">>)),
     name_href |-> row.name_href, is_enquiry_like |-> row.is_enquiry_like,
     department_override |-> row.department_override]

\* _extract_people_from_html: `phone = _normalize_phone(office_tel_raw)`,
\* `if not phone: continue`
RECURSIVE extract_people_from_html(_)
extract_people_from_html(rows) ==
    IF rows = <<>> THEN <<>>
    ELSE (IF PersonDict(Head(rows)).office_tel_norm = None
          THEN <<>>
          ELSE <<PersonDict(Head(rows))>>)
         \o extract_people_from_html(Tail(rows))

\* the dicts _extract_people_from_html returns: a person, an "Enquiry" row,
\* and service rows with and without a department cell
PersonAnn == PersonDict(RowAnn)
EnquiryRow == PersonDict(RowEnquiry)
ServiceRowBb == PersonDict(RowServiceBb)
ServiceRow == PersonDict(RowService)

NoTree == <<>>

DirBodies ==
    {[tree |-> NoTree, rows |-> <<>>, links |-> <<>>],
     [tree |-> (TelP :> <<LabelBa, LabelD1>>) @@ (TelQ :> <<LabelBa, LabelD2>>),
      rows |-> <<>>,
      links |-> <<[href |-> TelP, text |-> <<"x">>], [href |-> TelQ, text |-> <<"x">>]>>],
     [tree |-> NoTree, rows |-> <<>>,
      links |-> <<[href |-> TelP, text |-> LabelBa], [href |-> TelQ, text |-> <<"B", "a", " ">>]>>],
     [tree |-> NoTree, rows |-> <<RowEnquiry>>, links |-> <<>>],
     [tree |-> NoTree, rows |-> <<RowAnn, RowEnquiry>>,
      links |-> <<[href |-> TelPf, text |-> LabelD1], [href |-> TelQ, text |-> LabelD2],
                  [href |-> TelI, text |-> <<"B", "a", "c", "k">>]>>],
     [tree |-> NoTree, rows |-> <<RowServiceBb>>,
      links |-> <<[href |-> TelQ, text |-> LabelD2]>>],
     [tree |-> NoTree, rows |-> <<RowService, RowAnn>>,
      links |-> <<[href |-> TelZ, text |-> LabelD1], [href |-> TelX, text |-> LabelD1]>>],
     [tree |-> (TelQ :> <<LabelBb>>), rows |-> <<RowAnn>>,
      links |-> <<[href |-> TelP, text |-> <<"A">>]>>],
     [tree |-> NoTree, rows |-> <<RowNoTel, RowEnquiry>>, links |-> <<>>],
     [tree |-> NoTree, rows |-> <<RowNoTel>>,
      links |-> <<[href |-> TelP, text |-> LabelD1]>>]}

DirOutcomes ==
    {[ok |-> TRUE, body |-> b] : b \in DirBodies}
    \cup {[ok |-> FALSE, body |-> [tree |-> NoTree, rows |-> <<>>, links |-> <<>>]]}

\* _canonicalize_tel_url and _is_crawlable_tel_page of the hrefs, tabulated once
TelCanon == [u \in TelHrefs |-> canonicalize_tel_url(u)]
TelCrawlable == [u \in TelHrefs |-> is_crawlable_tel_page(u)]

DirConfigs ==
    {[DevbBase EXCEPT !.seed_url = TelI, !.max_pages = n] : n \in 1..MaxPagesBound}
    \cup {[DevbBase EXCEPT !.seed_url = TelI, !.max_total_records = n] :
            n \in 1..MaxRecordsBound}
    \cup {[DevbBase EXCEPT !.seed_url = TelI, !.request_delay_seconds = s[1],
                            !.request_jitter_seconds = s[2]] : s \in PaceSettings}

\* record_by_key.get(k): the place in out of the record stored under the key,
\* 0 for None
KeyIndex(by_key, k) == IF k \in DOMAIN by_key THEN by_key[k] ELSE 0

\* `record_by_key[k] = rec; out.append(rec)`: rec is the i-th record of out
WithRecord_unkeyed(by_key, k, i) == by_key
WithRecord(by_key, k, i) ==
    [x \in DOMAIN by_key \cup {k} |-> IF x = k THEN i ELSE by_key[x]]

\* the places of the records once the list is sorted
Reindexed(by_key, records, sorted) ==
    [k \in DOMAIN by_key |-> CHOOSE j \in DOMAIN sorted : sorted[j] = records[by_key[k]]]

\* `discovered_at = datetime.now(...)`: read once, when crawl() begins
discovered_at == ctx.started_at_utc + 1

\* _make_meta and UrlRecord(...): url, and the meta keys that identify and place the contact
ContactRecord(url, page_url, k, department_root, effective_path) ==
    [url |-> url, source |-> "tel_directory", discovered_at_utc |-> discovered_at,
     dedup_key |-> k,
     department_root |-> department_root,
     department_paths |-> set_department_path(effective_path),
     discovered_from |-> page_url,
     discovered_from_urls |-> None, other_person_urls |-> None]

\* the else branch: the key was seen before; the record keeps its department
\* paths and notes the page and the other person URL
MergeSighting(rec, url, page_url) ==
    [rec EXCEPT
        !.discovered_from_urls =
            IF @ = None
            THEN IF page_url = rec.discovered_from
                 THEN <<rec.discovered_from>>
                 ELSE <<rec.discovered_from, page_url>>
            ELSE IF page_url \in Range(@) THEN @ ELSE Append(@, page_url),
        !.other_person_urls =
            IF rec.url = url THEN @
            ELSE IF @ = None THEN <<url>>
            ELSE IF url \in Range(@) THEN @ ELSE Append(@, url)]

\* _canonicalize_any_url
AnyCanonParsed(p) ==
    IF p.scheme = <<>> \/ p.netloc = <<>> THEN None
    ELSE urlunparse([p EXCEPT !.scheme = Lower(p.scheme), !.netloc = Lower(p.netloc),
                              !.fragment = <<>>])

canonicalize_any_url(url) ==
    IF Strip(url) = <<>> THEN None
    ELSE IF StartsWith(Lower(Strip(url)), <<"j", "a", "v", "a", "s", "c", "r", "i", "p", "t", ":">>) THEN None
    ELSE AnyCanonParsed(urlparse(Strip(url)))

\* `person_url = _canonicalize_any_url(row.name_href or "")`, tabulated once
person_url == [h \in {PersonU, ServiceHref, ScriptHref} |-> canonicalize_any_url(h)]

\* `url = str(p.get("person_url") or "").strip() or page_url`
PersonUrl(p, page_url) ==
    IF person_url[p.name_href] = None THEN page_url ELSE person_url[p.name_href]

\* the entry kept in page_entries for a person
PageEntry(p, page_url, department_root) ==
    [phone_key |-> p.office_tel_norm, url |-> PersonUrl(p, page_url),
     is_enquiry_like |-> p.is_enquiry_like, department_root |-> department_root]

\* one person, with the root, the effective path and the key resolved
DirSighting(p, page_url, department_root, effective_path, k, st) ==
    [st EXCEPT
        !.entries = Append(@, PageEntry(p, page_url, department_root)),
        !.out = IF KeyIndex(st.by_key, k) = 0
                THEN Append(@, ContactRecord(PersonUrl(p, page_url), page_url, k,
                                             department_root, effective_path))
                ELSE [@ EXCEPT ![KeyIndex(st.by_key, k)] =
                        MergeSighting(@, PersonUrl(p, page_url), page_url)],
        !.by_key = IF KeyIndex(st.by_key, k) = 0
                   THEN WithRecord(@, k, Len(st.out) + 1)
                   ELSE @,
        !.broke = (IF KeyIndex(st.by_key, k) = 0 THEN Len(st.out) + 1 ELSE Len(st.out))
                  >= cfg.max_total_records]

DirPersonRooted(p, page_url, dept_path, department_root, st) ==
    DirSighting(p, page_url, department_root,
                effective_department_path(dept_path, p.is_enquiry_like, department_root),
                dedup_key(p.office_tel_norm,
                          department_id(p.is_enquiry_like, department_root,
                                        effective_department_path(
                                            dept_path, p.is_enquiry_like,
                                            department_root))),
                st)

\* one person of `for p in people`
DirPerson(p, page_url, dept_path, st) ==
    IF p.office_tel_norm = <<>> THEN st
    ELSE DirPersonRooted(p, page_url, dept_path,
                         record_department_root(p.department_override, dept_path), st)

RECURSIVE DirPeople(_, _, _, _)
DirPeople(people, page_url, dept_path, st) ==
    IF people = <<>> \/ st.broke THEN st
    ELSE DirPeople(Tail(people), page_url, dept_path,
                   DirPerson(Head(people), page_url, dept_path, st))

\* one entry of _ensure_record_for_page_path, with the path and key resolved
EnsureResolved(e, page_url, effective_path, k, records) ==
    IF KeyIndex(records.by_key, k) # 0 THEN records
    ELSE [out |-> Append(records.out,
                         ContactRecord(e.url, page_url, k,
                                       normalize_department_id(e.department_root),
                                       effective_path)),
          by_key |-> WithRecord(records.by_key, k, Len(records.out) + 1)]

EnsureEntry(e, page_url, dept_path, records) ==
    IF Strip(e.phone_key) = <<>> THEN records
    ELSE EnsureResolved(
            e, page_url,
            effective_department_path(dept_path, e.is_enquiry_like,
                                      normalize_department_id(e.department_root)),
            dedup_key(Strip(e.phone_key),
                      department_id(e.is_enquiry_like,
                                    normalize_department_id(e.department_root),
                                    effective_department_path(
                                        dept_path, e.is_enquiry_like,
                                        normalize_department_id(e.department_root)))),
            records)

RECURSIVE EnsureEntries(_, _, _, _)
EnsureEntries(entries, page_url, dept_path, records) ==
    IF entries = <<>> THEN records
    ELSE EnsureEntries(Tail(entries), page_url, dept_path,
                       EnsureEntry(Head(entries), page_url, dept_path, records))

\* _ensure_record_for_page_path, for the page_entries as they are during the link loop
ensure_record_for_page_path(entries_by_page, page_url, dept_path, records) ==
    IF page_url \notin DOMAIN entries_by_page THEN records
    ELSE EnsureEntries(entries_by_page[page_url], page_url, dept_path, records)

\* the list and the dict as _ensure_record_for_page_path left them
WithRecords(st, records) == [st EXCEPT !.out = records.out, !.by_key = records.by_key]

\* one crawlable link, with its canonical URL and the breadcrumb of its target
DirLinkResolved(can, next_path, visited, entries_by_page, st) ==
    IF can \in visited
    THEN WithRecords(st, ensure_record_for_page_path(
                             entries_by_page, can, next_path,
                             [out |-> st.out, by_key |-> st.by_key]))
    ELSE [st EXCEPT !.queue = Append(@, [url |-> can, department_path |-> next_path])]

\* one link of `for link in links`
DirLink(link, tree, dept_path, visited, entries_by_page, st) ==
    IF Strip(link.href) = <<>> THEN st
    ELSE IF ~TelCrawlable[link.href] THEN st
    ELSE IF TelCanon[link.href] = None THEN st
    ELSE DirLinkResolved(
            TelCanon[link.href],
            IF TelCanon[link.href] \in DOMAIN tree
            THEN tree[TelCanon[link.href]]
            ELSE NextPathFromText(dept_path, clean_department_segment(link.text)),
            visited, entries_by_page, st)

RECURSIVE DirLinks(_, _, _, _, _, _)
DirLinks(links, tree, dept_path, visited, entries_by_page, st) ==
    IF links = <<>> THEN st
    ELSE DirLinks(Tail(links), tree, dept_path, visited, entries_by_page,
                  DirLink(Head(links), tree, dept_path, visited, entries_by_page, st))

\* `out.sort(key=lambda r: (r.meta.get("dedup_key") or "", r.url))`, stable
KeyLess(r, s) ==
    \/ StrLess(r.dedup_key, s.dedup_key)
    \/ r.dedup_key = s.dedup_key /\ StrLess(r.url, s.url)

RECURSIVE InsertByKey(_, _)
InsertByKey(r, s) ==
    IF s = <<>> THEN <<r>>
    ELSE IF KeyLess(r, Head(s)) THEN <<r>> \o s
    ELSE <<Head(s)>> \o InsertByKey(r, Tail(s))

RECURSIVE SortByKey(_)
SortByKey(s) ==
    IF s = <<>> THEN <<>>
    ELSE InsertByKey(s[Len(s)], SortByKey(SubSeq(s, 1, Len(s) - 1)))

\* `page_entries[page_url] = entries_on_page`
WithEntries(entries_by_page, page_url, entries) ==
    [u \in DOMAIN entries_by_page \cup {page_url} |->
        IF u = page_url THEN entries ELSE entries_by_page[u]]

\* "Polite pacing", the last statements of an iteration that walked its links:
\* `delay = request_delay_seconds`, plus random.uniform(0.0, request_jitter_seconds)
\* when the jitter is positive, then `_sleep_seconds(delay)`
SleepAfterPage ==
    \E u \in 0..cfg.request_jitter_seconds :
        politeness' = Append(politeness,
                             [fetches |-> Len(fetched) + 1, visited |-> visited_pages',
                              seconds |-> cfg.request_delay_seconds + u])

\* the end of an iteration: the loop ends on an empty queue, crawl() sorts and returns
DirAfterLinks(st) ==
    /\ queue' = st.queue
    /\ SleepAfterPage
    /\ IF st.queue = <<>>
       THEN /\ Returned(SortByKey(st.out))
            /\ record_by_key' = Reindexed(st.by_key, st.out, SortByKey(st.out))
       ELSE /\ out' = st.out
            /\ record_by_key' = st.by_key
            /\ UNCHANGED cstate

\* after the people of a page: the record cap ends the loop before
\* page_entries is written; otherwise the entries are kept and the links walked
DirAfterPeople(item, rest, body, dept_path, st) ==
    IF Len(st.out) >= cfg.max_total_records
    THEN /\ queue' = rest
         /\ Returned(SortByKey(st.out))
         /\ record_by_key' = Reindexed(st.by_key, st.out, SortByKey(st.out))
         /\ UNCHANGED <<page_entries, politeness>>
    ELSE /\ page_entries' = WithEntries(page_entries, item.url, st.entries)
         /\ DirAfterLinks(
                DirLinks(body.links, body.tree, dept_path,
                         visited_pages \cup {item.url},
                         WithEntries(page_entries, item.url, st.entries),
                         [queue |-> rest, out |-> st.out, by_key |-> st.by_key]))

\* a fetched page whose breadcrumb dept_path is settled
DirPage(item, rest, body, dept_path) ==
    /\ fetched' = Append(fetched, [url |-> item.url, depth |-> 0, ok |-> TRUE,
                                   body |-> body, dept_path |-> dept_path,
                                   emitted |-> Len(out)])
    /\ DirAfterPeople(item, rest, body, dept_path,
                      DirPeople(extract_people_from_html(body.rows), item.url, dept_path,
                                [out |-> out, by_key |-> record_by_key,
                                 entries |-> <<>>, broke |-> FALSE]))

\* the fetch of an iteration; the office tree's breadcrumb for the page itself
\* replaces the one the queue item carries
DirFetch(item, rest, o) ==
    /\ visited_pages' = visited_pages \cup {item.url}
    /\ IF o.ok
       THEN DirPage(item, rest, o.body,
                    IF item.url \in DOMAIN o.body.tree
                    THEN o.body.tree[item.url]
                    ELSE item.department_path)
       ELSE /\ Raised
            /\ queue' = rest
            /\ fetched' = Append(fetched, [url |-> item.url, depth |-> 0, ok |-> FALSE,
                                           body |-> o.body,
                                           dept_path |-> item.department_path,
                                           emitted |-> Len(out)])
            /\ UNCHANGED <<page_entries, record_by_key, politeness>>

\* one iteration of `while queue`
DirIteration(item, rest, o) ==
    IF AlreadyVisited(item.url, visited_pages)
    THEN /\ queue' = rest
         /\ IF rest = <<>>
            THEN /\ Returned(SortByKey(out))
                 /\ record_by_key' = Reindexed(record_by_key, out, SortByKey(out))
            ELSE UNCHANGED <<out, cstate, record_by_key>>
         /\ UNCHANGED <<visited_pages, fetched, page_entries, politeness>>
    ELSE IF Cardinality(visited_pages) >= cfg.max_pages
    THEN /\ queue' = rest
         /\ Returned(SortByKey(out))
         /\ record_by_key' = Reindexed(record_by_key, out, SortByKey(out))
         /\ UNCHANGED <<visited_pages, fetched, page_entries, politeness>>
    ELSE DirFetch(item, rest, o)

DirStep ==
    /\ crawler = "tel_directory"
    /\ cstate = "running"
    /\ queue # <<>>
    /\ \E o \in DirOutcomes : DirIteration(Head(queue), Tail(queue), o)
    /\ UNCHANGED <<crawler, cfg, skipped_pages, seen_docs>>
    /\ UNCHANGED <<fvars, cvars, pvars, mvars, bvars, hvars>>

(***************************************************************************)
(* A crawl run: crawl() of one crawler under one configuration.            *)
(***************************************************************************)
InitFrontier ==
    \/ /\ crawler = "devb_publications"
       /\ cfg \in DevbConfigs
       /\ queue = <<QueueItem(devb_canonicalize_url(cfg.seed_url), 0, None)>>
    \/ /\ crawler = "archsd_practices_and_guidelines"
       /\ cfg \in ArchsdConfigs
       /\ queue = <<QueueItem(archsd_canonicalize_url(cfg.seed_url), 0, None)>>
    \/ /\ crawler = "emsd.regulating_railway_safety"
       /\ cfg \in EmsdConfigs
       /\ queue = <<cfg.seed_url>>
    \/ /\ crawler = "tel_directory"
       /\ cfg \in DirConfigs
       /\ queue = <<[url |-> canonicalize_tel_url(cfg.seed_url),
                     department_path |-> <<>>]>>

InitCrawl ==
    /\ BackoffIdle
    /\ PhoneIdle
    /\ ParseIdle
    /\ MainIdle
    /\ FetchIdle
    /\ CanonIdle
    /\ InitFrontier
    /\ visited_pages = {}
    /\ skipped_pages = {}
    /\ seen_docs = {}
    /\ out = <<>>
    /\ cstate = "running"
    /\ fetched = <<>>
    /\ page_entries = <<>>
    /\ record_by_key = <<>>
    /\ politeness = <<>>

NextCrawl == DevbStep \/ ArchsdStep \/ EmsdStep \/ DirStep

SpecCrawl == InitCrawl /\ [][NextCrawl]_vars

\* the loop is sequential code and every fetch returns or raises: while crawl()
\* has not ended, its next iteration is taken
SpecCrawlLive == SpecCrawl /\ WF_vars(NextCrawl)

(***************************************************************************)
(* archsd_technical_documents (crawlers/archsd_technical_documents.py):    *)
(* helpers.  The module has its own copies of _canonicalize_url, _path_ext,*)
(* _path_starts_with_any and _path_is_explicitly_allowed, with the same    *)
(* steps as the ones modelled above.                                       *)
(***************************************************************************)
\* the hub and the pages and documents of the technical documents site
TechHub == <<"h", "t", "t", "p", ":", "/", "/", "h", "/", "s", "/", "h", "u", "b">>
TechGS == <<"h", "t", "t", "p", ":", "/", "/", "h", "/", "s", "/", "g", "e", "n", "e", "r", "a", "l", "-", "s", "p", "e", "c", "i", "f", "i", "c", "a", "t", "i", "o", "n", "s", ".", "h", "t", "m", "l">>
TechGC == <<"h", "t", "t", "p", ":", "/", "/", "h", "/", "s", "/", "G", "e", "n", "e", "r", "a", "l", "-", "S", "p", "e", "c", "i", "f", "i", "c", "a", "t", "i", "o", "n", "-", "f", "o", "r", "-", "a", "/">>
TechSD == <<"h", "t", "t", "p", ":", "/", "/", "h", "/", "s", "/", "s", "d">>
TechY1 == <<"h", "t", "t", "p", ":", "/", "/", "h", "/", "s", "/", "y", "1">>
TechY2 == <<"h", "t", "t", "p", ":", "/", "/", "h", "/", "s", "/", "y", "2">>
TechDocR == <<"h", "t", "t", "p", ":", "/", "/", "h", "/", "s", "/", "r", "2", "0", "2", "1", ".", "p", "d", "f">>
TechDoc21 == <<"h", "t", "t", "p", ":", "/", "/", "h", "/", "s", "/", "2", "0", "2", "1", "-", "r", ".", "p", "d", "f">>

TechHrefs == {TechHub, TechGS, TechGC, TechSD, TechY1, TechY2, TechDocR, TechDoc21}

\* _canonicalize_url and _path_ext of the module, tabulated once
tech_canonicalize_url == [u \in Hrefs \cup TechHrefs |-> canonicalize_url(u, DefaultOpts)]
TechCanonUrls == {tech_canonicalize_url[u] : u \in Hrefs \cup TechHrefs} \ {None}
TechParsed == [u \in TechCanonUrls |-> urlparse(u)]
tech_path_ext == [u \in TechCanonUrls |-> path_ext(u)]

\* `(path or "").rsplit("/", 1)[-1].strip()`
LastSegment(path) == Strip(SubSeq(path, RFind(path, "/") + 1, Len(path)))

\* section_slug_to_name
section_slug_to_name ==
    (<<"g", "e", "n", "e", "r", "a", "l", "-", "s", "p", "e", "c", "i", "f", "i", "c", "a", "t", "i", "o", "n", "s", ".", "h", "t", "m", "l">> :> <<"G", "e", "n", "e", "r", "a", "l", " ", "S", "p", "e", "c", "i", "f", "i", "c", "a", "t", "i", "o", "n", "s">>)
    @@ (<<"t", "e", "s", "t", "i", "n", "g", "-", "c", "o", "m", "m", "i", "s", "s", "i", "o", "n", "i", "n", "g", "-", "p", "r", "o", "c", "e", "d", "u", "r", "e", ".", "h", "t", "m", "l">> :> <<"T", "e", "s", "t", "i", "n", "g", " ", "&", " ", "C", "o", "m", "m", "i", "s", "s", "i", "o", "n", "i", "n", "g", " ", "P", "r", "o", "c", "e", "d", "u", "r", "e">>)
    @@ (<<"b", "i", "l", "l", "-", "o", "f", "-", "q", "u", "a", "n", "t", "i", "t", "i", "e", "s", ",", "-", "m", "e", "t", "h", "o", "d", "-", "o", "f", "-", "m", "e", "a", "s", "u", "r", "e", "m", "e", "n", "t", "-", "a", "n", "d", "-", "s", "c", "h", "e", "d", "u", "l", "e", "-", "o", "f", "-", "r", "a", "t", "e", "s", ".", "h", "t", "m", "l">>
            :> <<"M", "o", "d", "e", "l", " ", "B", "i", "l", "l", " ", "o", "f", " ", "Q", "u", "a", "n", "t", "i", "t", "i", "e", "s", " ", "f", "o", "r", " ", "B", "u", "i", "l", "d", "i", "n", "g", " ", "W", "o", "r", "k", "s">>)
    @@ (<<"s", "t", "a", "n", "d", "a", "r", "d", "-", "m", "e", "t", "h", "o", "d", "-", "o", "f", "-", "m", "e", "a", "s", "u", "r", "e", "m", "e", "n", "t", "-", "f", "o", "r", "-", "b", "u", "i", "l", "d", "i", "n", "g", "-", "e", "l", "e", "m", "e", "n", "t", "s", ".", "h", "t", "m", "l">>
            :> <<"S", "t", "a", "n", "d", "a", "r", "d", " ", "M", "e", "t", "h", "o", "d", " ", "o", "f", " ", "M", "e", "a", "s", "u", "r", "e", "m", "e", "n", "t", " ", "f", "o", "r", " ", "B", "u", "i", "l", "d", "i", "n", "g", " ", "E", "l", "e", "m", "e", "n", "t", "s">>)
    @@ (<<"s", "c", "h", "e", "d", "u", "l", "e", "-", "o", "f", "-", "r", "a", "t", "e", "s", ".", "h", "t", "m", "l">> :> <<"S", "c", "h", "e", "d", "u", "l", "e", " ", "o", "f", " ", "R", "a", "t", "e", "s">>)
    @@ (<<"s", "t", "a", "n", "d", "a", "r", "d", "-", "d", "r", "a", "w", "i", "n", "g", "s", ".", "h", "t", "m", "l">> :> <<"S", "t", "a", "n", "d", "a", "r", "d", " ", "D", "r", "a", "w", "i", "n", "g", "s">>)

\* expected_sections: the section names in lower case
expected_sections == {Lower(section_slug_to_name[k]) : k \in DOMAIN section_slug_to_name}

\* section_child_slug_prefixes
section_child_slug_prefixes ==
    (<<"g", "e", "n", "e", "r", "a", "l", "-", "s", "p", "e", "c", "i", "f", "i", "c", "a", "t", "i", "o", "n", "s", ".", "h", "t", "m", "l">> :> {<<"g", "e", "n", "e", "r", "a", "l", "-", "s", "p", "e", "c", "i", "f", "i", "c", "a", "t", "i", "o", "n", "-", "f", "o", "r", "-">>})
    @@ (<<"t", "e", "s", "t", "i", "n", "g", "-", "c", "o", "m", "m", "i", "s", "s", "i", "o", "n", "i", "n", "g", "-", "p", "r", "o", "c", "e", "d", "u", "r", "e", ".", "h", "t", "m", "l">> :> {<<"t", "-", "c", "-", "p", "r", "o", "c", "e", "d", "u", "r", "e", "-", "f", "o", "r", "-">>})

\* str.isdigit for one character, and int() of a string of digits

RECURSIVE IntOf(_)
IntOf(s) == IF s = <<>> THEN 0 ELSE 10 * IntOf(SubSeq(s, 1, Len(s) - 1)) + DigitValue(s[Len(s)])

\* the absent year: the code's None
NoYear == 0

\* _is_probable_year_link: the link text, stripped, is four digits that
\* read as a year from 1900 to 2100
YearOfStripped(txt) ==
    IF Len(txt) # 4 \/ \E i \in DOMAIN txt : ~IsDigit(txt[i]) THEN NoYear
    ELSE IF IntOf(txt) < 1900 \/ IntOf(txt) > 2100 THEN NoYear
    ELSE IntOf(txt)

is_probable_year_link(link) == YearOfStripped(Strip(link.text))

\* a character \w of a regular expression matches
IsWordChar(c) == c = "_" \/ IsDigit(c) \/ IsLetter(c)

\* _YEAR_RE = \b(19\d{2}|20\d{2})\b matches part at position i
YearAt(part, i) ==
    /\ i + 3 <= Len(part)
    /\ SubSeq(part, i, i + 1) \in {<<"1", "9">>, <<"2", "0">>}
    /\ IsDigit(part[i + 2])
    /\ IsDigit(part[i + 3])
    /\ i = 1 \/ ~IsWordChar(part[i - 1])
    /\ i + 3 = Len(part) \/ ~IsWordChar(part[i + 4])

YearsIn(part) == {IntOf(SubSeq(part, i, i + 3)) : i \in {j \in DOMAIN part : YearAt(part, j)}}

\* _extract_best_effort_year(link_text, can): the most recent year named
extract_best_effort_year(link_text, can) ==
    IF YearsIn(link_text) \cup YearsIn(can) = {} THEN NoYear
    ELSE Max(YearsIn(link_text) \cup YearsIn(can))

(***************************************************************************)
(* archsd_technical_documents: the site and Crawler.crawl                  *)
(* A page body is the list of _iter_links, each link with its absolute     *)
(* href and its text, and the PDF URLs found in the raw HTML.               *)
(***************************************************************************)
TechBodies ==
    {[links |-> <<>>, pdfs_in_html |-> <<>>],
     [links |-> <<[href |-> TechGS, text |-> <<"x">>], [href |-> TechSD, text |-> <<" ", "s", "t", "a", "n", "d", "a", "r", "d", " ", " ", "D", "r", "a", "w", "i", "n", "g", "s", " ">>],
                  [href |-> UrlX, text |-> <<"x">>], [href |-> TechDocR, text |-> <<"r">>]>>,
      pdfs_in_html |-> <<>>],
     [links |-> <<[href |-> TechGC, text |-> <<"x">>], [href |-> TechY1, text |-> <<"x">>],
                  [href |-> TechGS, text |-> <<"x">>], [href |-> TechDoc21, text |-> <<"r">>]>>,
      pdfs_in_html |-> <<TechDocR>>],
     [links |-> <<[href |-> TechY1, text |-> <<"2", "0", "2", "1">>], [href |-> TechY2, text |-> <<" ", "2", "0", "2", "2", " ">>],
                  [href |-> TechDocR, text |-> <<"i", "n", " ", "2", "0", "2", "1">>]>>,
      pdfs_in_html |-> <<>>],
     [links |-> <<[href |-> TechY1, text |-> <<"2", "0", "2", "1">>], [href |-> TechY2, text |-> <<"2", "0", "2", "3">>],
                  [href |-> UrlO, text |-> <<"2", "0", "2", "4">>], [href |-> TechDocR, text |-> <<"r">>]>>,
      pdfs_in_html |-> <<TechDoc21>>],
     [links |-> <<[href |-> TechY1, text |-> <<"2", "0", "2", "1">>], [href |-> TechY2, text |-> <<"1", "8", "9", "9">>],
                  [href |-> TechDoc21, text |-> <<"r">>], [href |-> TechDocR, text |-> <<"r", " ", "2", "0", "2", "3">>]>>,
      pdfs_in_html |-> <<>>],
     [links |-> <<[href |-> TechHub, text |-> <<"x">>], [href |-> TechY2, text |-> <<"S", "c", "h", "e", "d", "u", "l", "e", " ", "o", "f", " ", "r", "a", "t", "e", "s">>],
                  [href |-> MailM, text |-> <<"x">>]>>,
      pdfs_in_html |-> <<>>]}

TechOutcomes ==
    {[ok |-> TRUE, body |-> b] : b \in TechBodies}
    \cup {[ok |-> FALSE, body |-> [links |-> <<>>, pdfs_in_html |-> <<>>]]}

\* the settings explored: one is varied at a time
TechBase ==
    [seed_url |-> TechHub, allowed_page_path_prefixes |-> <<<<"/", "s", "/">>>>,
     allowed_pdf_path_prefixes |-> <<>>, min_year |-> 2022,
     max_depth |-> MaxDepthBound, max_pages |-> MaxPagesBound - 1,
     max_out_links_per_page |-> 0, max_total_records |-> MaxRecordsBound]

TechConfigs ==
    {[TechBase EXCEPT !.max_depth = n] : n \in 0..MaxDepthBound}
    \cup {[TechBase EXCEPT !.max_pages = n] : n \in 1..MaxPagesBound - 1}
    \cup {[TechBase EXCEPT !.max_total_records = n] : n \in 1..MaxRecordsBound}
    \cup {[TechBase EXCEPT !.max_out_links_per_page = n] : n \in 0..MaxOutLinksBound}
    \cup {[TechBase EXCEPT !.allowed_pdf_path_prefixes = <<<<"/", "o", "/">>>>],
          [TechBase EXCEPT !.allowed_page_path_prefixes = <<<<>>>>],
          [TechBase EXCEPT !.min_year = 2021]}

\* _QueueItem
TechItem(url, depth, discovered_from, section, section_root_slug, year_context, year_mode) ==
    [url |-> url, depth |-> depth, discovered_from |-> discovered_from,
     section |-> section, section_root_slug |-> section_root_slug,
     year_context |-> year_context, year_mode |-> year_mode]

\* explicit_allowed_paths: the start path and the hub's known paths
tech_explicit_allowed_paths ==
    {IF TechParsed[tech_canonicalize_url[cfg.seed_url]].path = <<>>
     THEN <<"/">> ELSE TechParsed[tech_canonicalize_url[cfg.seed_url]].path,
     <<"/", "e", "n", "/", "r", "e", "p", "o", "r", "t", "s", "/", "t", "e", "c", "h", "n", "i", "c", "a", "l", "-", "d", "o", "c", "u", "m", "e", "n", "t", "s", ".", "h", "t", "m", "l">>, <<"/", "e", "n", "/", "r", "e", "p", "o", "r", "t", "s", "/", "t", "e", "c", "h", "i", "n", "i", "c", "a", "l", "-", "d", "o", "c", "u", "m", "e", "n", "t", "s", ".", "h", "t", "m", "l">>,
     <<"/", "e", "n", "/", "r", "e", "p", "o", "r", "t", "s", "/", "t", "e", "c", "h", "n", "i", "c", "a", "l", "-", "d", "o", "c", "u", "m", "e", "n", "t", "s">>, <<"/", "e", "n", "/", "r", "e", "p", "o", "r", "t", "s", "/", "t", "e", "c", "h", "i", "n", "i", "c", "a", "l", "-", "d", "o", "c", "u", "m", "e", "n", "t", "s">>}

\* the page scope test of crawl()
TechInPageScope(path) ==
    \/ path_is_explicitly_allowed(path, tech_explicit_allowed_paths)
    \/ path_starts_with_any(path, cfg.allowed_page_path_prefixes)

\* one hub link of `for link in hub_links`: the section it names, if any
SectionEntry(link, can) ==
    IF can = None THEN <<>>
    ELSE IF Lower(TechParsed[can].netloc) # base_netloc THEN <<>>
    ELSE IF Lower(LastSegment(TechParsed[can].path)) \in DOMAIN section_slug_to_name
    THEN <<[name |-> section_slug_to_name[Lower(LastSegment(TechParsed[can].path))],
            url |-> can]>>
    ELSE IF Lower(JoinSplit(link.text)) \in expected_sections
    THEN <<[name |-> Strip(link.text), url |-> can]>>
    ELSE <<>>

\* section_urls
RECURSIVE TechSections(_)
TechSections(hub_links) ==
    IF hub_links = <<>> THEN <<>>
    ELSE SectionEntry(Head(hub_links), tech_canonicalize_url[Head(hub_links).href])
         \o TechSections(Tail(hub_links))

\* `sec_slug.lower() or None`
SectionRootSlug(sec_url) ==
    IF LastSegment(TechParsed[sec_url].path) = <<>> THEN None
    ELSE Lower(LastSegment(TechParsed[sec_url].path))

\* the first queue: every section as a root of its own, or the start page
TechQueue(section_urls, start_can) ==
    IF section_urls # <<>>
    THEN [i \in DOMAIN section_urls |->
            TechItem(section_urls[i].url, 0, start_can, section_urls[i].name,
                     SectionRootSlug(section_urls[i].url), NoYear, "none")]
    ELSE <<TechItem(start_can, 0, None, None, None, NoYear, "none")>>

\* the hub fetch before the loop: it raises, or the sections found on the hub
\* seed the queue
TechHubFetch(start_can, o) ==
    /\ fetched' = <<[url |-> start_can, depth |-> 0, ok |-> o.ok, body |-> o.body,
                     emitted |-> 0]>>
    /\ IF o.ok
       THEN /\ queue' = TechQueue(TechSections(o.body.links), start_can)
            /\ cstate' = "running"
            /\ UNCHANGED out
       ELSE Raised /\ UNCHANGED queue

TechHubStep ==
    /\ crawler = "archsd_technical_documents"
    /\ cstate = "hub"
    /\ \E o \in TechOutcomes : TechHubFetch(tech_canonicalize_url[cfg.seed_url], o)
    /\ UNCHANGED <<crawler, cfg, visited_pages, skipped_pages, seen_docs, page_entries, record_by_key, politeness>>
    /\ UNCHANGED <<fvars, cvars, pvars, mvars, bvars, hvars>>

\* one link of `for link in links` that looks like a year-selector entry
TechYearLink(link, can) ==
    IF is_probable_year_link(link) = NoYear THEN <<>>
    ELSE IF can = None THEN <<>>
    ELSE IF Lower(TechParsed[can].netloc) # base_netloc THEN <<>>
    ELSE IF ~TechInPageScope(TechParsed[can].path) THEN <<>>
    ELSE <<[y |-> is_probable_year_link(link), url |-> can]>>

\* year_links
RECURSIVE TechYearLinks(_)
TechYearLinks(links) ==
    IF links = <<>> THEN <<>>
    ELSE TechYearLink(Head(links), tech_canonicalize_url[Head(links).href])
         \o TechYearLinks(Tail(links))

YearsAvailable(year_links) == {year_links[i].y : i \in DOMAIN year_links}

\* year_urls_to_follow: the selector's targets at or after min_year, or every
\* target when no year reaches min_year
year_urls_to_follow(year_links) ==
    IF cfg.min_year \in YearsAvailable(year_links)
    THEN {year_links[i].url : i \in {j \in DOMAIN year_links : year_links[j].y >= cfg.min_year}}
    ELSE IF \E y \in YearsAvailable(year_links) : y >= cfg.min_year
    THEN {year_links[i].url : i \in {j \in DOMAIN year_links : year_links[j].y >= cfg.min_year}}
    ELSE {year_links[i].url : i \in DOMAIN year_links}

\* year_mode chosen with year_urls_to_follow
YearMode(year_links) ==
    IF cfg.min_year \in YearsAvailable(year_links) THEN "strict" ELSE "best_effort"

\* text_candidates: the text of the last link to each document
RECURSIVE TechDocText(_, _)
TechDocText(links, can) ==
    IF links = <<>> THEN <<>>
    ELSE IF tech_canonicalize_url[links[Len(links)].href] = can
    THEN links[Len(links)].text
    ELSE TechDocText(SubSeq(links, 1, Len(links) - 1), can)

\* doc_urls_to_text: documents among the links and in the raw HTML
TechDocKeys(links, pdfs_in_html) ==
    {c \in {tech_canonicalize_url[links[i].href] : i \in DOMAIN links}
           \cup {tech_canonicalize_url[pdfs_in_html[i]] : i \in DOMAIN pdfs_in_html} :
        c # None /\ tech_path_ext[c] \in {<<".", "p", "d", "f">>}}

\* the document passes the host, prefix, seen and year tests of the doc loop
TechDocAdmitted(can, text, item, st) ==
    /\ Lower(TechParsed[can].netloc) = base_netloc
    /\ cfg.allowed_pdf_path_prefixes = <<>>
       \/ path_starts_with_any(TechParsed[can].path, cfg.allowed_pdf_path_prefixes)
    /\ can \notin st.seen_docs
    /\ item.year_mode = "best_effort" =>
          \/ extract_best_effort_year(text, can) = NoYear
          \/ extract_best_effort_year(text, can) >= cfg.min_year

TechRecord(can, text, item) ==
    [url |-> can, name |-> IF text = <<>> THEN None ELSE text,
     discovered_at_utc |-> ctx.started_at_utc,
     source |-> "archsd_technical_documents",
     discovered_from |-> item.url, section |-> item.section, year |-> item.year_context]

\* `for doc_url, text in doc_urls_to_text.items()`, in the order of the keys
RECURSIVE TechDocs(_, _, _, _)
TechDocs(keys, links, item, st) ==
    IF keys = <<>> \/ st.broke THEN st
    ELSE IF ~TechDocAdmitted(Head(keys), TechDocText(links, Head(keys)), item, st)
    THEN TechDocs(Tail(keys), links, item, st)
    ELSE TechDocs(Tail(keys), links, item,
            [st EXCEPT !.seen_docs = @ \cup {Head(keys)},
                       !.out = Append(@, TechRecord(Head(keys), TechDocText(links, Head(keys)), item)),
                       !.broke = Len(st.out) + 1 >= cfg.max_total_records])

\* `for y, u in year_links`: the followed selector targets join the queue
RECURSIVE TechEnqueueYears(_, _, _, _, _)
TechEnqueueYears(year_links, follow, mode, item, st) ==
    IF year_links = <<>> THEN st
    ELSE IF Head(year_links).url \notin follow \/ Head(year_links).url \in st.visited
    THEN TechEnqueueYears(Tail(year_links), follow, mode, item, st)
    ELSE TechEnqueueYears(Tail(year_links), follow, mode, item,
            [st EXCEPT !.queue = Append(@, TechItem(Head(year_links).url, item.depth + 1,
                                                   item.url, item.section,
                                                   item.section_root_slug,
                                                   Head(year_links).y, mode))])

\* within one section only the section's own children are followed
SlugAllowed(child_slug, root) ==
    \/ child_slug = root
    \/ /\ root \in DOMAIN section_child_slug_prefixes
       /\ \E pref \in section_child_slug_prefixes[root] : StartsWith(child_slug, pref)

\* the section a followed link inherits, or takes from its own text
TechLinkSection(link, item) ==
    IF item.section # None THEN item.section
    ELSE IF Lower(Strip(link.text)) \in expected_sections THEN Strip(link.text)
    ELSE item.section

\* the link passes the tests of the second `for link in links`
TechLinkFollowed(link, can, item, follow, st) ==
    /\ can # None
    /\ Lower(TechParsed[can].netloc) = base_netloc
    /\ tech_path_ext[can] \notin {<<".", "p", "d", "f">>}
    /\ TechInPageScope(TechParsed[can].path)
    /\ item.section_root_slug # None =>
          SlugAllowed(Lower(LastSegment(TechParsed[can].path)), item.section_root_slug)
    /\ ~(is_probable_year_link(link) # NoYear /\ can \in follow)
    /\ can \notin st.visited

RECURSIVE TechLinks(_, _, _, _)
TechLinks(links, item, follow, st) ==
    IF links = <<>> THEN st
    ELSE IF ~TechLinkFollowed(Head(links), tech_canonicalize_url[Head(links).href], item, follow, st)
    THEN TechLinks(Tail(links), item, follow, st)
    ELSE TechLinks(Tail(links), item, follow,
            [st EXCEPT !.queue = Append(@, TechItem(tech_canonicalize_url[Head(links).href],
                                                   item.depth + 1, item.url,
                                                   TechLinkSection(Head(links), item),
                                                   item.section_root_slug,
                                                   item.year_context, item.year_mode))])

\* `links = links[:max_out_links]`
TechTruncate(links) ==
    IF cfg.max_out_links_per_page > 0 /\ Len(links) > cfg.max_out_links_per_page
    THEN SubSeq(links, 1, cfg.max_out_links_per_page) ELSE links

\* the page after its documents: the year selector, then the other links
TechFollow(links, year_links, item, st) ==
    IF st.broke \/ Len(st.out) >= cfg.max_total_records THEN [st EXCEPT !.broke = TRUE]
    ELSE IF item.depth >= cfg.max_depth THEN st
    ELSE IF year_links = <<>> THEN TechLinks(links, item, {}, st)
    ELSE TechLinks(links, item, year_urls_to_follow(year_links),
            TechEnqueueYears(year_links, year_urls_to_follow(year_links),
                             YearMode(year_links), item, st))

\* a fetched page: its documents, then its links
TechPage(links, pdfs_in_html, item, st) ==
    TechFollow(links, TechYearLinks(links), item,
        TechDocs(SortedStrings(TechDocKeys(links, pdfs_in_html)), links, item, st))

TechState(rest) ==
    [queue |-> rest, visited |-> visited_pages, seen_docs |-> seen_docs, out |-> out,
     broke |-> FALSE]

\* the end of crawl(): sort by url and return
TechFinish(st) ==
    /\ queue' = st.queue
    /\ seen_docs' = st.seen_docs
    /\ IF st.broke \/ st.queue = <<>>
       THEN out' = SortByUrl(st.out) /\ cstate' = "done"
       ELSE out' = st.out /\ cstate' = "running"

TechFetch(item, rest, o) ==
    /\ fetched' = Append(fetched, [url |-> item.url, depth |-> item.depth, ok |-> o.ok,
                                   body |-> o.body, emitted |-> Len(out)])
    /\ visited_pages' = visited_pages \cup {item.url}
    /\ UNCHANGED skipped_pages
    /\ IF o.ok
       THEN TechFinish(TechPage(TechTruncate(o.body.links), o.body.pdfs_in_html, item,
                                [TechState(rest) EXCEPT !.visited = @ \cup {item.url}]))
       ELSE Raised /\ UNCHANGED <<queue, seen_docs>>

TechSkip(item, rest) ==
    /\ skipped_pages' = IF item.url \in visited_pages \cup skipped_pages
                        THEN skipped_pages ELSE skipped_pages \cup {item.url}
    /\ UNCHANGED <<visited_pages, fetched>>
    /\ TechFinish(TechState(rest))

\* one iteration of `while queue`
TechIteration(item, rest) ==
    IF item.url \in visited_pages \/ item.url \in skipped_pages THEN TechSkip(item, rest)
    ELSE IF Cardinality(visited_pages) >= cfg.max_pages
    THEN TechFinish([TechState(rest) EXCEPT !.broke = TRUE])
         /\ UNCHANGED <<visited_pages, skipped_pages, fetched>>
    ELSE IF Lower(TechParsed[item.url].netloc) # base_netloc
    THEN TechFinish(TechState(rest)) /\ UNCHANGED <<visited_pages, skipped_pages, fetched>>
    ELSE IF ~TechInPageScope(TechParsed[item.url].path) THEN TechSkip(item, rest)
    ELSE \E o \in TechOutcomes : TechFetch(item, rest, o)

TechStep ==
    /\ crawler = "archsd_technical_documents"
    /\ cstate = "running"
    /\ queue # <<>>
    /\ TechIteration(Head(queue), Tail(queue))
    /\ UNCHANGED <<crawler, cfg, page_entries, record_by_key, politeness>>
    /\ UNCHANGED <<fvars, cvars, pvars, mvars, bvars, hvars>>

InitTech ==
    /\ BackoffIdle
    /\ PhoneIdle
    /\ ParseIdle
    /\ MainIdle
    /\ FetchIdle
    /\ CanonIdle
    /\ crawler = "archsd_technical_documents"
    /\ cfg \in TechConfigs
    /\ queue = <<>>
    /\ visited_pages = {}
    /\ skipped_pages = {}
    /\ seen_docs = {}
    /\ out = <<>>
    /\ page_entries = <<>>
    /\ record_by_key = <<>>
    /\ politeness = <<>>
    /\ fetched = <<>>
    /\ cstate = "hub"

NextTech == TechHubStep \/ TechStep

SpecTech == InitTech /\ [][NextTech]_vars

(***************************************************************************)
(* utils/html_links.py: the two anchor parsers, fed one callback at a time *)
(* A document is a well-nested sequence of start tags, end tags, void      *)
(* tags and text.  html.parser calls handle_starttag for <br>,             *)
(* handle_starttag and then handle_endtag for <br/>, and knows no void     *)
(* element.  Text outside an anchor reaches neither parser's state and is  *)
(* not fed.                                                                *)
(***************************************************************************)
MaxEvents == 6

element_id == <<"c", "o", "n", "t", "e", "n", "t">>
parse_base_url == <<"h", "t", "t", "p", ":", "/", "/", "h", "/", "s", "/", "a">>

\* the href of the k-th anchor of the document: relative and absolute turn about
AnchorHref(k) ==
    IF k % 2 = 1 THEN <<"/", "p", Digits[k + 1]>>
    ELSE <<"h", "t", "t", "p", ":", "/", "/", "h", "/", "q">> \o <<Digits[k + 1]>>

\* urljoin(base_url, href) for an absolute href and for a path-absolute one
urljoin(base, href) ==
    IF urlparse(href).scheme # <<>> THEN href
    ELSE urlunparse([urlparse(base) EXCEPT !.path = href, !.params = <<>>,
                                           !.query = <<>>, !.fragment = <<>>])

\* the three assignments that open an anchor, and the three that close it
OpenAnchor(p, href) ==
    [p EXCEPT !.in_a = TRUE, !.current_href = href, !.current_text_parts = <<>>]

ResetAnchor(p) ==
    [p EXCEPT !.in_a = FALSE, !.current_href = None, !.current_text_parts = <<>>]

\* `if self._in_a and self._current_href: self.links.append(...)`
AppendLink(p) ==
    IF p.in_a /\ p.current_href # None /\ p.current_href # <<>>
    THEN [p EXCEPT !.links = Append(@, [href |-> p.current_href,
                                        text |-> Strip(p.current_text_parts)])]
    ELSE p

\* the depth after a start tag: the target opens, or one level deeper inside it
DepthAfterStart(p, id) ==
    IF p.target_depth = 0 /\ id = element_id THEN 1
    ELSE IF p.target_depth > 0 THEN p.target_depth + 1
    ELSE p.target_depth

\* _ScopedAnchorParser.handle_starttag
ScopedStartAt(p, tag, href) ==
    IF p.target_depth <= 0 THEN p
    ELSE IF Lower(tag) # <<"a">> THEN p
    ELSE OpenAnchor(p, href)

ScopedStart(p, tag, id, href) ==
    ScopedStartAt([p EXCEPT !.target_depth = DepthAfterStart(p, id)], tag, href)

\* _ScopedAnchorParser.handle_endtag
ScopedEndInside(p, tag) ==
    IF p.target_depth <= 0 THEN p
    ELSE IF Lower(tag) # <<"a">> THEN p
    ELSE ResetAnchor(AppendLink(p))

ScopedEnd(p, tag) ==
    IF p.target_depth > 0
    THEN IF p.target_depth - 1 = 0
         THEN ResetAnchor([p EXCEPT !.target_depth = 0])
         ELSE ScopedEndInside([p EXCEPT !.target_depth = @ - 1], tag)
    ELSE ScopedEndInside(p, tag)

\* _ScopedAnchorParser.handle_data
ScopedData(p, data) ==
    IF p.target_depth > 0 /\ p.in_a
    THEN [p EXCEPT !.current_text_parts = @ \o data] ELSE p

\* _AnchorParser.handle_starttag, handle_endtag and handle_data
AnchorStart(p, tag, href) == IF Lower(tag) # <<"a">> THEN p ELSE OpenAnchor(p, href)

AnchorEnd(p, tag) == IF Lower(tag) # <<"a">> THEN p ELSE ResetAnchor(AppendLink(p))

AnchorData(p, data) == IF p.in_a THEN [p EXCEPT !.current_text_parts = @ \o data] ELSE p

\* the loop of extract_links and of extract_links_in_element over parser.links
Normalized(links) ==
    [i \in DOMAIN links |-> [href |-> urljoin(parse_base_url, links[i].href),
                             text |-> links[i].text]]

\* _iter_links of the crawlers: the scoped links, or all links when there are none
iter_links_scoped(scoped, unscoped) == scoped
iter_links(scoped, unscoped) == IF scoped # <<>> THEN scoped ELSE unscoped

\* the document as it is: the open elements, whether the first element with
\* the id has been seen, and every anchor with whether it opened inside it
InsideTarget(d) == \E i \in DOMAIN d.stack : d.stack[i].is_target

DomStart(d, tag, id, href) ==
    [d EXCEPT !.stack = Append(@, [tag |-> tag, is_target |-> ~d.found /\ id = element_id]),
              !.found = @ \/ id = element_id,
              !.anchors = IF tag = <<"a">>
                          THEN Append(@, [href |-> href, inside |-> InsideTarget(d)])
                          ELSE @,
              !.fed = @ + 1]

DomLeaf(d) == [d EXCEPT !.fed = @ + 1]

DomEnd(d) == [d EXCEPT !.stack = SubSeq(@, 1, Len(@) - 1), !.fed = @ + 1]

\* the start tags fed: a plain or identified div, an anchor with or without href
StartTags(d) ==
    {[tag |-> <<"d", "i", "v">>, id |-> i, href |-> None] : i \in {None, element_id}}
    \cup {[tag |-> <<"a">>, id |-> None, href |-> h] : h \in {None, AnchorHref(Len(d.anchors) + 1)}}

FeedStart ==
    /\ pstate = "feeding"
    /\ dom.fed < MaxEvents
    /\ \E t \in StartTags(dom) :
          /\ scoped_parser' = ScopedStart(scoped_parser, t.tag, t.id, t.href)
          /\ anchor_parser' = AnchorStart(anchor_parser, t.tag, t.href)
          /\ dom' = DomStart(dom, t.tag, t.id, t.href)
    /\ UNCHANGED <<pstate, extracted>>
    /\ UNCHANGED <<fvars, cvars, kvars, mvars, bvars, hvars>>

\* <br>: a start tag that no end tag follows
FeedVoid ==
    /\ pstate = "feeding"
    /\ dom.fed < MaxEvents
    /\ scoped_parser' = ScopedStart(scoped_parser, <<"b", "r">>, None, None)
    /\ anchor_parser' = AnchorStart(anchor_parser, <<"b", "r">>, None)
    /\ dom' = DomLeaf(dom)
    /\ UNCHANGED <<pstate, extracted>>
    /\ UNCHANGED <<fvars, cvars, kvars, mvars, bvars, hvars>>

\* <br/>: handle_startendtag calls handle_starttag and handle_endtag
FeedStartEnd ==
    /\ pstate = "feeding"
    /\ dom.fed < MaxEvents
    /\ scoped_parser' = ScopedEnd(ScopedStart(scoped_parser, <<"b", "r">>, None, None), <<"b", "r">>)
    /\ anchor_parser' = AnchorEnd(AnchorStart(anchor_parser, <<"b", "r">>, None), <<"b", "r">>)
    /\ dom' = DomLeaf(dom)
    /\ UNCHANGED <<pstate, extracted>>
    /\ UNCHANGED <<fvars, cvars, kvars, mvars, bvars, hvars>>

\* the end tag of the innermost open element
FeedEnd ==
    /\ pstate = "feeding"
    /\ dom.fed < MaxEvents
    /\ dom.stack # <<>>
    /\ scoped_parser' = ScopedEnd(scoped_parser, dom.stack[Len(dom.stack)].tag)
    /\ anchor_parser' = AnchorEnd(anchor_parser, dom.stack[Len(dom.stack)].tag)
    /\ dom' = DomEnd(dom)
    /\ UNCHANGED <<pstate, extracted>>
    /\ UNCHANGED <<fvars, cvars, kvars, mvars, bvars, hvars>>

\* text inside an anchor
FeedData ==
    /\ pstate = "feeding"
    /\ dom.fed < MaxEvents
    /\ dom.stack # <<>>
    /\ dom.stack[Len(dom.stack)].tag = <<"a">>
    /\ scoped_parser' = ScopedData(scoped_parser, <<" ", "y">>)
    /\ anchor_parser' = AnchorData(anchor_parser, <<" ", "y">>)
    /\ dom' = DomLeaf(dom)
    /\ UNCHANGED <<pstate, extracted>>
    /\ UNCHANGED <<fvars, cvars, kvars, mvars, bvars, hvars>>

\* the end of the document: extract_links_in_element, extract_links and
\* _iter_links return
ExtractLinks ==
    /\ pstate = "feeding"
    /\ dom.stack = <<>>
    /\ extracted' = [scoped |-> Normalized(scoped_parser.links),
                     unscoped |-> Normalized(anchor_parser.links),
                     iter |-> iter_links(Normalized(scoped_parser.links),
                                         Normalized(anchor_parser.links))]
    /\ pstate' = "done"
    /\ UNCHANGED <<scoped_parser, anchor_parser, dom>>
    /\ UNCHANGED <<fvars, cvars, kvars, mvars, bvars, hvars>>

InitParse ==
    /\ BackoffIdle
    /\ PhoneIdle
    /\ FetchIdle
    /\ CanonIdle
    /\ CrawlIdle
    /\ MainIdle
    /\ scoped_parser = ScopedParserInit
    /\ anchor_parser = AnchorParserInit
    /\ dom = DomInit
    /\ pstate = "feeding"
    /\ extracted = <<>>

NextParse == FeedStart \/ FeedVoid \/ FeedStartEnd \/ FeedEnd \/ FeedData \/ ExtractLinks

SpecParse == InitParse /\ [][NextParse]_vars

(***************************************************************************)
(* compute_backoff_seconds (crawlers/base.py), called as the retry loops   *)
(* call it: attempt 0, 1, 2, ... with one base and one jitter.  Durations  *)
(* are counted in quarter seconds, so the defaults 0.5 s and 0.25 s are 2  *)
(* and 1; doubling is exact in binary floating point as it is here.        *)
(***************************************************************************)
MaxAttempt == 10

\* `max_backoff_seconds: float = 30.0`, in quarter seconds
max_backoff_seconds == 120

\* base 0 s, 0.25 s, 0.5 s (the default), 0.75 s, 1 s, 30 s, 40 s
BackoffBases == {0, 1, 2, 3, 4, 120, 160}

\* jitter 0 s, 0.25 s (the default), 0.5 s
BackoffJitters == {0, 1, 2}

\* `2**attempt`
RECURSIVE Pow2(_)
Pow2(k) == IF k = 0 THEN 1 ELSE 2 * Pow2(k - 1)

CappedNever(exp) == exp
\* `exp = min(exp, max_backoff_seconds)`
Capped(exp) == IF exp <= max_backoff_seconds THEN exp ELSE max_backoff_seconds

\* uniform is the value random.uniform(0.0, jitter) draws
compute_backoff_seconds(k, base, jitter, uniform) ==
    IF jitter > 0
    THEN Capped(base * Pow2(k)) + uniform
    ELSE Capped(base * Pow2(k))

\* the delays of the last two calls
LastTwo(s) == IF Len(s) > 2 THEN SubSeq(s, Len(s) - 1, Len(s)) ELSE s

ComputeBackoff ==
    /\ backoff_attempt <= MaxAttempt
    /\ \E uniform \in 0..backoff_in.jitter :
         backoff_out' = LastTwo(Append(backoff_out,
             compute_backoff_seconds(backoff_attempt, backoff_in.base,
                                     backoff_in.jitter, uniform)))
    /\ backoff_attempt' = backoff_attempt + 1
    /\ UNCHANGED backoff_in
    /\ UNCHANGED <<fvars, cvars, kvars, pvars, mvars, hvars>>

InitBackoff ==
    /\ FetchIdle
    /\ CanonIdle
    /\ CrawlIdle
    /\ ParseIdle
    /\ MainIdle
    /\ PhoneIdle
    /\ backoff_in \in [base : BackoffBases, jitter : BackoffJitters]
    /\ backoff_attempt = 0
    /\ backoff_out = <<>>

NextBackoff == ComputeBackoff

SpecBackoff == InitBackoff /\ [][NextBackoff]_vars

(***************************************************************************)
(* _normalize_phone and _dedup_key (crawlers/directory/tel_directory.py),  *)
(* applied to two ways of writing one local number.                        *)
(***************************************************************************)
\* 8-digit local numbers; the second starts with 852 itself
LocalNumbers == {<<"2", "3", "4", "5", "6", "7", "8", "9">>, <<"8", "5", "2", "1", "2", "3", "4", "5">>, <<"2", "8", "5", "2", "0", "0", "0", "0">>}

\* what is written ahead of the local number, and between its two halves
CountryPrefixes == {<<>>, <<"8", "5", "2">>, <<"+", "8", "5", "2", " ">>, <<"(", "8", "5", "2", ")", " ">>}
HalfSeparators == {<<>>, <<" ">>, <<"-">>}

\* one way of writing a local number
Written(local, prefix, sep) == prefix \o SubSeq(local, 1, 4) \o sep \o SubSeq(local, 5, 8)

PhoneDepartments == {None, <<"B", "a">>, <<"B", "a", " ", " ", "-", ">", " ", "D", "1">>}

PhoneInputs ==
    {[local |-> n, raw |-> <<Written(n, p1, s1), Written(n, p2, s2)>>, department_id |-> d] :
        n \in LocalNumbers, p1 \in CountryPrefixes, s1 \in HalfSeparators,
        p2 \in CountryPrefixes, s2 \in HalfSeparators, d \in PhoneDepartments}

\* both strings are normalized and keyed under the department
NormalizePhones ==
    /\ phone_in.raw # <<>>
    /\ phone_out = NoPhones
    /\ phone_out' =
          [norm |-> [i \in 1..2 |-> normalize_phone(phone_in.raw[i])],
           key |-> [i \in 1..2 |->
                       IF normalize_phone(phone_in.raw[i]) = None THEN None
                       ELSE dedup_key(normalize_phone(phone_in.raw[i]),
                                      phone_in.department_id)]]
    /\ UNCHANGED phone_in
    /\ UNCHANGED <<fvars, cvars, kvars, pvars, mvars, bvars>>

InitPhone ==
    /\ FetchIdle
    /\ CanonIdle
    /\ CrawlIdle
    /\ ParseIdle
    /\ MainIdle
    /\ BackoffIdle
    /\ phone_in \in PhoneInputs
    /\ phone_out = NoPhones

NextPhone == NormalizePhones

SpecPhone == InitPhone /\ [][NextPhone]_vars

(***************************************************************************)
(* crawlers/link_extract.py: one page, its anchors filtered, sorted and    *)
(* deduplicated.  datetime.now() is read once for every record: a reading  *)
(* equals the one before it or is later.                                   *)
(***************************************************************************)
MaxLinks == 3

LinkBodies ==
    {<<>>,
     <<[href |-> DocE, text |-> <<"e">>], [href |-> DocD, text |-> <<"d">>],
       [href |-> DocE, text |-> <<"x">>]>>,
     <<[href |-> UrlB, text |-> <<"r", "e", "p", "o", "r", "t">>], [href |-> DocD, text |-> <<"R", "e", "p", "o", "r", "t", " ", "d">>],
       [href |-> DocG, text |-> <<"g">>]>>}

LinkOutcomes == {[ok |-> TRUE, body |-> b] : b \in LinkBodies} \cup {[ok |-> FALSE, body |-> <<>>]}

LinkConfigs ==
    [page_url : {UrlA, <<>>}, text_contains : {None, <<"R", "E", "P", "O", "R", "T">>},
     href_contains : {None, <<".", "P", "D", "F">>}, limit : 1..MaxLinks]

\* the test of filter_links for one link
LinkKept(l, text_contains, href_contains) ==
    /\ text_contains = None \/ Contains(Lower(l.text), Lower(text_contains))
    /\ href_contains = None \/ Contains(Lower(l.href), Lower(href_contains))

\* filter_links
filter_links(links, text_contains, href_contains) ==
    SelectSeq(links, LAMBDA l : LinkKept(l, text_contains, href_contains))

\* `sorted(links, key=lambda l: l.href)`
RECURSIVE InsertByHref(_, _)
InsertByHref(l, s) ==
    IF s = <<>> THEN <<l>>
    ELSE IF StrLess(l.href, Head(s).href) THEN <<l>> \o s
    ELSE <<Head(s)>> \o InsertByHref(l, Tail(s))

RECURSIVE SortByHref(_)
SortByHref(s) ==
    IF s = <<>> THEN <<>>
    ELSE InsertByHref(s[Len(s)], SortByHref(SubSeq(s, 1, Len(s) - 1)))

\* the reading of datetime.now() for the n-th record, given where the clock
\* moved on between readings
Reading(ticks, n) ==
    ctx.started_at_utc + 1 + Cardinality({i \in 1..n : ticks[i]})

LinkRecord(l, at) ==
    [url |-> l.href, name |-> IF l.text = <<>> THEN None ELSE l.text,
     discovered_at_utc |-> at, source |-> "link_extract"]

\* the loop over the sorted links: skip a seen href, append, stop at limit
RECURSIVE LinkRecords(_, _, _, _)
LinkRecords(links, seen, records, ticks) ==
    IF links = <<>> THEN records
    ELSE IF Head(links).href \in seen THEN LinkRecords(Tail(links), seen, records, ticks)
    ELSE IF Len(records) + 1 >= cfg.limit
    THEN Append(records, LinkRecord(Head(links), Reading(ticks, Len(records) + 1)))
    ELSE LinkRecords(Tail(links), seen \cup {Head(links).href},
                     Append(records, LinkRecord(Head(links), Reading(ticks, Len(records) + 1))),
                     ticks)

\* resp.raise_for_status() raises, or the records are built and returned
LinkFetched(o, ticks) ==
    /\ fetched' = Append(fetched, [url |-> cfg.page_url, depth |-> 0, ok |-> o.ok,
                                   body |-> o.body, emitted |-> 0])
    /\ IF o.ok
       THEN /\ out' = LinkRecords(SortByHref(filter_links(o.body, cfg.text_contains,
                                                          cfg.href_contains)),
                                  {}, <<>>, ticks)
            /\ cstate' = "done"
       ELSE Raised

\* Crawler.crawl of link_extract
LinkExtractCrawl ==
    /\ crawler = "link_extract"
    /\ cstate = "running"
    /\ IF cfg.page_url = <<>>
       THEN /\ cstate' = "done"
            /\ UNCHANGED <<out, fetched>>
       ELSE \E o \in LinkOutcomes : \E ticks \in [1..MaxLinks -> BOOLEAN] :
               LinkFetched(o, ticks)
    /\ UNCHANGED <<crawler, cfg, queue, visited_pages, skipped_pages, seen_docs, page_entries, record_by_key, politeness>>
    /\ UNCHANGED <<fvars, cvars, pvars, mvars, bvars, hvars>>

InitLinks ==
    /\ BackoffIdle
    /\ PhoneIdle
    /\ FetchIdle
    /\ CanonIdle
    /\ ParseIdle
    /\ MainIdle
    /\ crawler = "link_extract"
    /\ cfg \in LinkConfigs
    /\ queue = <<>>
    /\ visited_pages = {}
    /\ skipped_pages = {}
    /\ seen_docs = {}
    /\ out = <<>>
    /\ cstate = "running"
    /\ fetched = <<>>
    /\ page_entries = <<>>
    /\ record_by_key = <<>>
    /\ politeness = <<>>

NextLinks == LinkExtractCrawl

SpecLinks == InitLinks /\ [][NextLinks]_vars


(***************************************************************************)
(* main.py: main() runs the named crawlers one after the other, collects   *)
(* what _run_one returns and writes latest/urls.jsonl.  A run is either    *)
(* `--crawler name` with any settings of that crawler, or the built-in     *)
(* list, of which the crawlers modelled here are kept in its order, under  *)
(* settings of one page each.                                              *)
(***************************************************************************)
crawler_names == <<"devb_publications", "archsd_practices_and_guidelines">>

\* the settings of the crawlers of the list
ListSettings ==
    ("devb_publications" :> [DevbBase EXCEPT !.max_pages = 1])
    @@ ("archsd_practices_and_guidelines" :> [ArchsdBase EXCEPT !.max_pages = 1])

\* the first queue of crawl(), by crawler
StartQueue(name, c) ==
    IF name = "devb_publications"
    THEN <<QueueItem(devb_canonicalize_url(c.seed_url), 0, None)>>
    ELSE <<QueueItem(archsd_canonicalize_url(c.seed_url), 0, None)>>

\* `mod.Crawler().crawl(ctx)` begins
StartCrawl(name) ==
    /\ crawler' = name
    /\ cfg' = ListSettings[name]
    /\ queue' = StartQueue(name, ListSettings[name])
    /\ visited_pages' = {}
    /\ skipped_pages' = {}
    /\ seen_docs' = {}
    /\ out' = <<>>
    /\ cstate' = "running"
    /\ fetched' = <<>>
    /\ page_entries' = <<>>
    /\ record_by_key' = <<>>
    /\ politeness' = <<>>

\* the order of the source names as strings
SourceOrder ==
    <<"archsd_practices_and_guidelines", "archsd_technical_documents", "devb_publications",
      "emsd.regulating_railway_safety", "tel_directory">>

SourceRank(src) == CHOOSE i \in DOMAIN SourceOrder : SourceOrder[i] = src

\* the key (url, source) of one record sorts before that of another
UrlSourceLess(r, s) ==
    \/ StrLess(r.url, s.url)
    \/ r.url = s.url /\ SourceRank(r.source) < SourceRank(s.source)

RECURSIVE InsertByUrlSource(_, _)
InsertByUrlSource(r, s) ==
    IF s = <<>> THEN <<r>>
    ELSE IF UrlSourceLess(r, Head(s)) THEN <<r>> \o s
    ELSE <<Head(s)>> \o InsertByUrlSource(r, Tail(s))

\* `all_records.sort(key=lambda r: (url, source))`: a stable sort, nothing dropped
RECURSIVE SortByUrlSource(_)
SortByUrlSource(s) ==
    IF s = <<>> THEN <<>>
    ELSE InsertByUrlSource(s[Len(s)], SortByUrlSource(SubSeq(s, 1, Len(s) - 1)))

\* _run_one returns: the records as dicts, sorted by url
run_one(records) == SortByUrl(records)

\* write_jsonl: one line per record, in order
write_jsonl(records) == records

\* `all_records.extend(_run_one(name, ctx))`, and the next crawler of the list
RunOneReturn ==
    /\ mstate = "running"
    /\ cstate = "done"
    /\ all_records' = all_records \o run_one(out)
    /\ IF names_left = <<>>
       THEN /\ mstate' = "collected"
            /\ UNCHANGED <<names_left, kvars>>
       ELSE /\ names_left' = Tail(names_left)
            /\ StartCrawl(Head(names_left))
            /\ UNCHANGED mstate
    /\ UNCHANGED <<written, files>>
    /\ UNCHANGED <<fvars, cvars, pvars, bvars, hvars>>

\* the three files of a run, as main() writes them
OutputFiles ==
    <<"latest/urls.jsonl", "latest/summary.json", "latest/manifest.json">>

\* crawl() raised: nothing catches it in _run_one or in main
RunOneRaises_flush ==
    /\ mstate = "running"
    /\ cstate = "raised"
    /\ mstate' = "raised"
    /\ written' = write_jsonl(SortByUrlSource(all_records))
    /\ files' = OutputFiles
    /\ UNCHANGED <<names_left, all_records>>
    /\ UNCHANGED <<fvars, cvars, kvars, pvars, bvars, hvars>>
RunOneRaises ==
    /\ mstate = "running"
    /\ cstate = "raised"
    /\ mstate' = "raised"
    /\ UNCHANGED <<names_left, all_records, written, files>>
    /\ UNCHANGED <<fvars, cvars, kvars, pvars, bvars, hvars>>

\* the final sort, then latest/urls.jsonl, summary.json and manifest.json
MainWrite ==
    /\ mstate = "collected"
    /\ written' = write_jsonl(SortByUrlSource(all_records))
    /\ files' = OutputFiles
    /\ mstate' = "written"
    /\ UNCHANGED <<names_left, all_records>>
    /\ UNCHANGED <<fvars, cvars, kvars, pvars, bvars, hvars>>

InitMain ==
    /\ BackoffIdle
    /\ PhoneIdle
    /\ FetchIdle
    /\ CanonIdle
    /\ ParseIdle
    /\ \/ /\ InitFrontier
          /\ names_left = <<>>
       \/ /\ crawler = Head(crawler_names)
          /\ cfg = ListSettings[crawler]
          /\ queue = StartQueue(crawler, cfg)
          /\ names_left = Tail(crawler_names)
    /\ visited_pages = {}
    /\ skipped_pages = {}
    /\ seen_docs = {}
    /\ out = <<>>
    /\ cstate = "running"
    /\ fetched = <<>>
    /\ page_entries = <<>>
    /\ record_by_key = <<>>
    /\ politeness = <<>>
    /\ all_records = <<>>
    /\ written = <<>>
    /\ files = <<>>
    /\ mstate = "running"

NextMain == NextCrawl \/ RunOneReturn \/ RunOneRaises \/ MainWrite

SpecMain == InitMain /\ [][NextMain]_vars




(***************************************************************************)
(* Claims about get_with_retries.                                          *)
(***************************************************************************)
AllRetryable ==
    \A i \in DOMAIN responses :
        responses[i].kind = "response" /\ responses[i].status \in retry_statuses

\* C1: when every GET returns a status of the retryable set, get_with_retries
\* never returns; it stops only by raising, after exactly max_retries + 1 GETs,
\* and what it raises is the HTTP error of the last response.
C1_ExhaustionRaises ==
    AllRetryable =>
        /\ fstate # "returned"
        /\ fstate = "running" => Len(responses) < max_retries + 1
        /\ fstate = "raised" =>
              /\ Len(responses) = max_retries + 1
              /\ fresult = HTTPError(responses[Len(responses)].status)

C1_Witness ==
    /\ AllRetryable
    /\ fstate = "raised"
    /\ max_retries = 2
    /\ Len(responses) = 3

\* C2: a response with a non-retryable error status (404) makes get_with_retries
\* raise at once: it is the only GET issued and no sleep has happened,
\* whatever max_retries is.
C2_NonRetryableRaisesAtOnce ==
    (responses # <<>> /\ responses[1].kind = "response" /\ responses[1].status = 404) =>
        /\ Len(responses) = 1
        /\ fstate = "raised"
        /\ fresult = HTTPError(404)
        /\ sleeps = <<>>

\* the outcomes C24 and C25 speak of: a retryable status, a network exception,
\* or a success
Failed(o) == o.kind = "exception" \/ (o.kind = "response" /\ o.status \in retry_statuses)
Succeeded(o) == o.kind = "response" /\ o.status = 200
RetryOrSuccess == \A i \in DOMAIN responses : Failed(responses[i]) \/ Succeeded(responses[i])

\* C24: whatever the outcomes of the attempts (retryable status, network
\* exception, success), at most max_retries + 1 GETs are issued; retryable
\* statuses and network exceptions use up the same budget, so the call goes on
\* while attempts are left and gives up only after max_retries + 1 failures;
\* the first successful response is returned and no GET follows it; a network
\* exception on the last allowed attempt is raised to the caller.
C24_AttemptBudget ==
    RetryOrSuccess =>
        /\ Len(responses) <= max_retries + 1
        /\ \A i \in DOMAIN responses :
              Succeeded(responses[i]) =>
                  /\ i = Len(responses)
                  /\ fstate = "returned"
                  /\ fresult = [err |-> "none", status |-> 200]
        /\ (\A i \in DOMAIN responses : Failed(responses[i])) =>
              /\ fstate = "running" <=> Len(responses) < max_retries + 1
              /\ fstate # "returned"
        /\ (Len(responses) = max_retries + 1 /\ responses[max_retries + 1].kind = "exception")
              => (fstate = "raised" /\ fresult = NetworkError)

\* a 429, then two network exceptions, the second on the last allowed attempt
C24_Witness ==
    /\ max_retries = 2
    /\ Len(responses) = 3
    /\ responses[1].kind = "response" /\ responses[1].status = 429
    /\ responses[2].kind = "exception"
    /\ responses[3].kind = "exception"
    /\ fstate = "raised"
    /\ fresult = NetworkError

\* the sleep_seconds calls that follow GET number i (attempt i - 1): none after
\* a success or after the last allowed attempt, else the Retry-After sleep of
\* a retryable response whose header is a number, then one backoff sleep
SleepsAfter(i) ==
    IF Succeeded(responses[i]) \/ i = max_retries + 1
    THEN <<>>
    ELSE (IF /\ responses[i].kind = "response"
             /\ responses[i].status \in retry_statuses
             /\ responses[i].retry_after = "number"
          THEN <<[kind |-> "retry_after", attempt |-> i - 1]>>
          ELSE <<>>)
         \o <<[kind |-> "backoff", attempt |-> i - 1]>>

RECURSIVE SleepsUpTo(_)
SleepsUpTo(n) == IF n = 0 THEN <<>> ELSE SleepsUpTo(n - 1) \o SleepsAfter(n)

\* C25: before every retry exactly one backoff sleep happens, computed from the
\* index of the attempt that just failed; when that attempt got a retryable
\* status with a Retry-After header that is a number, a sleep of that length
\* comes first; a header that is no number adds no sleep; nothing is slept
\* after the last attempt or after a success.
C25_SleepsBeforeRetry ==
    sleeps = SleepsUpTo(Len(responses))

\* a 503 with Retry-After: 5, a 503 with an HTTP date, a 503 on the last attempt
C25_Witness ==
    /\ max_retries = 2
    /\ Len(responses) = 3
    /\ \A i \in 1..3 : responses[i].kind = "response" /\ responses[i].status = 503
    /\ responses[1].retry_after = "number"
    /\ responses[2].retry_after = "garbage"
    /\ responses[3].retry_after = "number"
    /\ fstate = "raised"
    /\ sleeps = <<[kind |-> "retry_after", attempt |-> 0],
                  [kind |-> "backoff", attempt |-> 0],
                  [kind |-> "backoff", attempt |-> 1]>>

(***************************************************************************)
(* Claims about canonicalize_url.                                          *)
(***************************************************************************)
\* C9: canonicalize_url is idempotent: when it succeeds on an absolute URL,
\* canonicalizing its result again gives the same string.
C9_Idempotent ==
    (canon_again # Unset /\ canon_out[1] # None) => canon_again = canon_out[1]

\* C10: under the default options two absolute URLs that differ only by
\* their fragment, by one trailing slash on a path that is not the root, or by
\* the letter case of scheme and host have the same canonical form.
C10_SameCanonicalForm ==
    ( /\ canon_out # <<>>
      /\ canon_opts = DefaultOpts
      /\ canon_out[1] # None
      /\ canon_rel.slash => urlparse(Strip(canon_in[1])).path # <<"/">> )
    => canon_out[1] = canon_out[2]

C10_Witness ==
    /\ canon_out # <<>>
    /\ canon_opts = DefaultOpts
    /\ canon_rel = [fragment |-> <<"f">>, slash |-> TRUE, upcase |-> TRUE]
    /\ canon_in[1] = <<"h", "t", "t", "p", ":", "/", "/", "h", "/", "a">>
    /\ canon_in[2] # canon_in[1]
    /\ canon_out[1] = canon_in[1]
    /\ canon_out[2] = canon_out[1]

(***************************************************************************)
(* Claims about the frontier crawl loops.                                  *)
(***************************************************************************)
FrontierCrawlers == {"devb_publications", "archsd_practices_and_guidelines"}

\* C3: in one crawl run no document URL is emitted twice: the output
\* crawl() returns holds at most one record per url, however many visited
\* pages link to the document.
C3_NoDuplicateDocument ==
    cstate = "done" =>
        \A i, j \in DOMAIN out : out[i].url = out[j].url => i = j

StartsWithConfiguredPrefix(path) ==
    \E i \in DOMAIN cfg.allowed_page_path_prefixes :
        StartsWith(path, cfg.allowed_page_path_prefixes[i])

\* every fetched same-host page is on the explicit allow-list or under a
\* configured prefix
FetchedInScope ==
    \A i \in DOMAIN fetched :
        NetlocLower(fetched[i].url) = base_netloc =>
            \/ PathOf(fetched[i].url) \in explicit_allowed_paths
            \/ StartsWithConfiguredPrefix(PathOf(fetched[i].url))

\* C5 as stated: scope containment for every configuration of the prefix
\* list, the empty list included: a same-host page whose path neither is on
\* the explicit allow-list nor starts with a configured prefix is never fetched.
C5_ScopeContainment_AnyList ==
    crawler = "archsd_practices_and_guidelines" => FetchedInScope

\* C5: scope containment for every non-empty prefix list: a same-host page
\* whose path neither is on the explicit allow-list nor starts with a
\* configured prefix is never fetched.  (With an empty prefix list every
\* same-host page is in scope.)
C5_ScopeContainment ==
    (crawler = "archsd_practices_and_guidelines"
     /\ cfg.allowed_page_path_prefixes # <<>>) => FetchedInScope

\* a finished run under the prefix list ["/s/"] in which a fetched page above
\* max_depth linked to the same-host page /o/p, which was not fetched
C5_Witness ==
    /\ crawler = "archsd_practices_and_guidelines"
    /\ cfg.allowed_page_path_prefixes = <<<<"/", "s", "/">>>>
    /\ cfg.explicit_allowed_page_paths = {}
    /\ cstate = "done"
    /\ \E i \in DOMAIN fetched :
          /\ fetched[i].ok
          /\ fetched[i].depth < cfg.max_depth
          /\ UrlO \in Range(fetched[i].body.links)
    /\ \A i \in DOMAIN fetched : fetched[i].url # UrlO

\* the documents a fetched page offers for emission: the canonical URLs of its
\* (truncated) links, and for archsd of the PDF URLs in its HTML, that have an
\* allowed document extension, are on the crawl host and, for archsd, lie
\* under an allowed PDF prefix when such prefixes are configured
OfferedDocuments(body) ==
    IF crawler = "devb_publications"
    THEN {c \in {CanonEncoded[h] :
                    h \in Range(Truncate(body.links, cfg.max_out_links_per_page))} \ {None} :
            /\ ExtOf[c] \in devb_ALLOWED_DOC_EXTS
            /\ NetlocLower(c) = base_netloc}
    ELSE {c \in {CanonDefault[h] :
                    h \in Range(Truncate(body.links, cfg.max_out_links_per_page))
                          \cup Range(body.pdfs_in_html)} \ {None} :
            /\ ExtOf[c] \in archsd_ALLOWED_DOC_EXTS
            /\ NetlocLower(c) = base_netloc
            /\ \/ cfg.allowed_pdf_path_prefixes = <<>>
               \/ \E k \in DOMAIN cfg.allowed_pdf_path_prefixes :
                     StartsWith(PathOf(c), cfg.allowed_pdf_path_prefixes[k])}

\* C6: depth bound: with the seed at depth 0 no page is fetched at a depth
\* greater than max_depth, and the documents offered by a fetched page at
\* depth exactly max_depth are emitted all the same: when the run has returned
\* without reaching the record cap, each of them is in the output.
C6_DepthBound ==
    crawler \in FrontierCrawlers =>
        /\ \A i \in DOMAIN fetched : fetched[i].depth <= cfg.max_depth
        /\ (cstate = "done" /\ Len(out) < cfg.max_total_records) =>
              \A i \in DOMAIN fetched :
                  (fetched[i].ok /\ fetched[i].depth = cfg.max_depth) =>
                      \A c \in OfferedDocuments(fetched[i].body) :
                          \E k \in DOMAIN out : out[k].url = c

\* a finished run with max_depth = 2 whose page at depth 2 linked to a page
\* that was not fetched and to a document that was emitted from that page
C6_Witness ==
    /\ crawler \in FrontierCrawlers
    /\ cfg.max_depth = 2
    /\ cstate = "done"
    /\ Len(out) < cfg.max_total_records
    /\ \E i \in DOMAIN fetched :
          /\ fetched[i].ok
          /\ fetched[i].depth = 2
          /\ fetched[i].url = UrlC
          /\ UrlA \notin Range(fetched[i].body.links)
          /\ \E k \in DOMAIN out :
                /\ out[k].depth = 2
                /\ out[k].discovered_from = UrlC
                /\ out[k].url \in OfferedDocuments(fetched[i].body)

\* the scenario of C11: the seed page links to the in-scope subpage /s/c and to
\* two documents, the subpage links to one further document
ScenarioSeed == [links |-> <<UrlC, DocD, DocE>>, pdfs_in_html |-> <<>>]
ScenarioSub == [links |-> <<DocG>>, pdfs_in_html |-> <<>>]

InScenario ==
    /\ crawler = "devb_publications"
    /\ cfg = [DevbBase EXCEPT !.max_depth = 1]
    /\ \A i \in DOMAIN fetched :
          /\ fetched[i].ok
          /\ fetched[i].body = IF fetched[i].url = UrlA THEN ScenarioSeed ELSE ScenarioSub

\* C11: end-to-end scenario: the seed page links to 2 documents and 1 in-scope
\* subpage, the subpage links to 1 further document; a crawl with max_depth = 1
\* fetches exactly 2 pages, the seed and then the subpage, and returns exactly
\* 3 records, sorted by URL.
C11_EndToEnd ==
    InScenario =>
        /\ Len(fetched) <= 2
        /\ cstate # "raised"
        /\ cstate = "done" =>
              /\ [i \in DOMAIN fetched |-> fetched[i].url] = <<UrlA, UrlC>>
              /\ [i \in DOMAIN out |-> out[i].url] = <<DocE, DocD, DocG>>

\* the scenario's run has returned, with the subpage fetched at depth 1
C11_Witness ==
    /\ InScenario
    /\ cstate = "done"
    /\ Len(fetched) = 2
    /\ fetched[2].url = UrlC
    /\ fetched[2].depth = 1
    /\ Len(out) = 3

\* C12: a fetch failure on the seed page aborts the crawler run, whereas a
\* fetch failure on a sub-page does not abort it: the run goes on with the
\* remaining queue and returns.
C12_SeedFatalSubpageNot ==
    /\ (fetched # <<>> /\ ~fetched[1].ok) => cstate = "raised"
    /\ (fetched # <<>> /\ fetched[1].ok) =>
          \A i \in 2..Len(fetched) : ~fetched[i].ok => cstate # "raised"

\* the crawlers that read max_total_records
CappedCrawlers == FrontierCrawlers \cup {"tel_directory"}

\* C13: the number of records a crawl run holds never exceeds
\* max_total_records, and once the cap is reached no further page is fetched
\* (`emitted` is the number of records held when the page was fetched).
C13_RecordCap ==
    crawler \in CappedCrawlers =>
        /\ Len(out) <= cfg.max_total_records
        /\ \A i \in DOMAIN fetched : fetched[i].emitted < cfg.max_total_records

\* C14: the number of pages fetched in one crawl run never exceeds max_pages:
\* the loop ends when a popped item finds the visited count at the cap, and
\* nothing is fetched outside that count.
C14_PageCap == Len(fetched) <= cfg.max_pages

\* C15: the list returned by a crawl run is sorted by record url in ascending
\* order, whatever the order of the visits and of the emissions.
SortedByUrl(s) == \A i, j \in DOMAIN s : i < j => ~StrLess(s[j].url, s[i].url)

C15_ReturnedSortedByUrl == cstate = "done" => SortedByUrl(out)

\* C16: no page on a host other than the crawl host is ever fetched, and no
\* document located on another host is ever emitted.
CrawlHost == IF crawler = "tel_directory" THEN TEL_HOST ELSE base_netloc

HostOf(u) == Lower(urlparse(u).netloc)

C16_SameHostOnly ==
    /\ \A i \in DOMAIN fetched : HostOf(fetched[i].url) = CrawlHost
    /\ \A i \in DOMAIN out : HostOf(out[i].url) = CrawlHost

\* C17: extract_links_in_element returns only anchors that are descendants of
\* the first element whose id equals element_id: no anchor that opened before
\* that element opened or after it closed is returned, whatever the tags fed.
ReturnedHrefs == {extracted.scoped[i].href : i \in DOMAIN extracted.scoped}

DescendantHrefs ==
    {urljoin(parse_base_url, dom.anchors[k].href) :
        k \in {j \in DOMAIN dom.anchors : dom.anchors[j].inside /\ dom.anchors[j].href # None}}

C17_ScopedOnlyDescendants == pstate = "done" => ReturnedHrefs \subseteq DescendantHrefs

CanonicalParts(p, u) ==
    /\ p.scheme # <<>> /\ p.netloc # <<>>
    /\ Lower(p.scheme) = p.scheme /\ Lower(p.netloc) = p.netloc
    /\ p.fragment = <<>> /\ \A i \in DOMAIN u : u[i] # "#"
    /\ p.path = <<"/">> \/ ~EndsWith(p.path, <<"/">>)

IsCanonicalAbsolute(u) == CanonicalParts(urlparse(u), u)

C19_RecordUrlCanonical == \A i \in DOMAIN out : IsCanonicalAbsolute(out[i].url)

\* C20: the output written by main holds at most one record for each pair
\* (url, source), whatever the crawlers that ran returned.
C20_OnePerUrlSource ==
    mstate = "written" =>
        \A i, j \in DOMAIN written :
            i < j => ~(written[i].url = written[j].url /\ written[i].source = written[j].source)

\* C21: all records returned by one crawl run carry the same
\* discovered_at_utc: it is set once per run, not once per record.
C21_OneDiscoveredAt ==
    \A i, j \in DOMAIN out : out[i].discovered_at_utc = out[j].discovered_at_utc

\* the path canonicalize_url starts from: `p.path or "/"`
PathIn(url) == IF urlparse(Strip(url)).path = <<>> THEN <<"/">> ELSE urlparse(Strip(url)).path

\* the path with exactly one trailing slash removed, the root left alone
OneSlashLess(path) ==
    IF path # <<"/">> /\ EndsWith(path, <<"/">>)
    THEN SubSeq(path, 1, Len(path) - 1)
    ELSE path

\* C31: with trim_trailing_slash, canonicalize_url removes exactly one trailing
\* slash from a non-root path that ends with a slash: a path that ends in two
\* slashes keeps one of them, and the root path / is left unchanged.
C31_OneTrailingSlash ==
    \A i \in DOMAIN canon_out :
        (canon_opts.trim_trailing_slash /\ canon_out[i] \notin {None, ValueError})
            => urlparse(canon_out[i]).path = OneSlashLess(PathIn(canon_in[i]))

(***************************************************************************)
(* Claims about the inputs canonicalize_url rejects.                       *)
(***************************************************************************)
\* the input, trimmed, is empty, starts with a rejected scheme in any case, or
\* has no scheme or no host
Rejectable(url) ==
    \/ Strip(url) = <<>>
    \/ \E sch \in {<<"j", "a", "v", "a", "s", "c", "r", "i", "p", "t", ":">>, <<"m", "a", "i", "l", "t", "o", ":">>, <<"t", "e", "l", ":">>} : StartsWith(Lower(Strip(url)), sch)
    \/ urlparse(Strip(url)).scheme = <<>>
    \/ urlparse(Strip(url)).netloc = <<>>

\* C23: canonicalize_url returns None, and raises nothing, for every input that
\* after trimming is empty, starts in any case with javascript:, mailto: or
\* tel:, or has no scheme or no host.
C23_RejectedReturnsNone ==
    \A i \in DOMAIN canon_out :
        Rejectable(canon_in[i]) => canon_out[i] = None

\* the host canonicalize_url compares with allowed_host, before any lowercasing
HostIn(url, opts) ==
    urlparse(IF opts.encode_spaces THEN EncodeSpaces(Strip(url)) ELSE Strip(url)).netloc

\* C32: when allowed_host is given, the host is compared case-insensitively
\* under every combination of the other options: an input that has a scheme and
\* a host fails exactly when its host differs from allowed_host ignoring case,
\* also when lowercase_scheme_host is false.
C32_HostCaseInsensitive ==
    \A i \in DOMAIN canon_out :
        (/\ canon_opts.allowed_host # None
         /\ ~Rejectable(canon_in[i])
         /\ canon_out[i] # ValueError)
            => ((canon_out[i] = None)
                    <=> Lower(HostIn(canon_in[i], canon_opts)) # Lower(canon_opts.allowed_host))

(***************************************************************************)
(* Claims about compute_backoff_seconds.                                   *)
(***************************************************************************)
\* the attempt whose delay is backoff_out[i]
AttemptOf(i) == backoff_attempt - Len(backoff_out) + i - 1

\* min(base * 2^k, 30 s)
BackoffFloor(k) == Min({backoff_in.base * Pow2(k), max_backoff_seconds})

\* C22: with jitter 0 the delay of attempt k is min(base * 2^k, 30 s), it never
\* decreases from one attempt to the next, and it is exactly 30 s at every
\* attempt at which base * 2^k has reached 30 s; with a jitter j > 0 the delay
\* lies between min(base * 2^k, 30 s) and that plus j.
C22_Backoff ==
    /\ \A i \in DOMAIN backoff_out :
         /\ backoff_in.jitter = 0 =>
              /\ backoff_out[i] = BackoffFloor(AttemptOf(i))
              /\ backoff_in.base * Pow2(AttemptOf(i)) >= max_backoff_seconds
                    => backoff_out[i] = max_backoff_seconds
         /\ backoff_in.jitter > 0 =>
              /\ backoff_out[i] >= BackoffFloor(AttemptOf(i))
              /\ backoff_out[i] <= BackoffFloor(AttemptOf(i)) + backoff_in.jitter
    /\ (backoff_in.jitter = 0 /\ Len(backoff_out) = 2)
          => backoff_out[1] <= backoff_out[2]

\* base 0.5 s, no jitter: attempt 10 waits the 30 s that attempt 6 already waited
C22_Witness ==
    /\ backoff_in = [base |-> 2, jitter |-> 0]
    /\ backoff_attempt = MaxAttempt + 1
    /\ backoff_out = <<max_backoff_seconds, max_backoff_seconds>>

(***************************************************************************)
(* Claims about the order of the frontier.                                 *)
(***************************************************************************)
IsPrefix(s, t) == Len(s) <= Len(t) /\ SubSeq(t, 1, Len(s)) = s

\* the queue as the loop keeps it: depths never decrease from head to tail,
\* the tail is at most one level below the head, and nothing queued or
\* fetched later is shallower than a page fetched before
BreadthFirst ==
    /\ \A i, j \in DOMAIN queue : i <= j => queue[i].depth <= queue[j].depth
    /\ \A i, j \in DOMAIN queue : queue[j].depth - queue[i].depth <= 1
    /\ \A i, j \in DOMAIN fetched : i <= j => fetched[i].depth <= fetched[j].depth
    /\ \A i \in DOMAIN fetched : \A q \in DOMAIN queue : fetched[i].depth <= queue[q].depth

\* one iteration of the loop: the head leaves, the items behind it keep their
\* order, new items join at the tail one level below the head, and a fetch is
\* the fetch of the head at the depth it was queued with
FifoStep ==
    (crawler \in FrontierCrawlers /\ cstate = "running" /\ queue # <<>>) =>
        /\ IsPrefix(Tail(queue), queue')
        /\ \A q \in Len(queue)..Len(queue') :
              /\ queue'[q].depth = Head(queue).depth + 1
              /\ queue'[q].discovered_from = Head(queue).url
        /\ fetched' # fetched =>
              /\ Len(fetched') = Len(fetched) + 1
              /\ fetched'[Len(fetched')].url = Head(queue).url
              /\ fetched'[Len(fetched')].depth = Head(queue).depth

\* C30: the frontier is strictly first-in first-out: at every point the depths
\* of the queued items are non-decreasing from head to tail and differ by at
\* most 1; every iteration takes the head and appends at the tail, so pages
\* are fetched in the order in which their first queue item was enqueued; and
\* a page is fetched at the smallest depth at which it was ever enqueued: no
\* item queued before or after is shallower than the fetch.
C30_StrictFifo ==
    /\ [](crawler \in FrontierCrawlers => BreadthFirst)
    /\ [][FifoStep]_vars

\* a queue holding items of depth 1 and of depth 2, one page queued twice
C30_Witness ==
    /\ crawler = "devb_publications"
    /\ cstate = "running"
    /\ Len(queue) >= 2
    /\ Head(queue).depth = 1
    /\ queue[Len(queue)].depth = 2
    /\ \E i, j \in DOMAIN queue : i < j /\ queue[i].url = queue[j].url

(***************************************************************************)
(* Claims about the year selector of archsd_technical_documents.           *)
(***************************************************************************)
\* the year selector crawl() read on the i-th fetched page
SelectorOf(i) == TechYearLinks(TechTruncate(fetched[i].body.links))

\* the URL is the target of a selector entry below min_year and of none at or
\* above it
BelowMinYearOnly(i, url) ==
    /\ \E n \in DOMAIN SelectorOf(i) :
          SelectorOf(i)[n].url = url /\ SelectorOf(i)[n].y < cfg.min_year
    /\ \A n \in DOMAIN SelectorOf(i) :
          SelectorOf(i)[n].url = url => SelectorOf(i)[n].y < cfg.min_year

\* C29: from a page with a year selector only year links at or above min_year
\* are enqueued: no queue item discovered from such a page is the target of a
\* year link below min_year, whether the selector holds min_year (strict
\* mode) or not (best-effort mode), and whichever loop appended the item.
C29_NoYearBelowMin ==
    crawler = "archsd_technical_documents" =>
        \A q \in DOMAIN queue : \A i \in 2..Len(fetched) :
            (fetched[i].ok /\ fetched[i].url = queue[q].discovered_from
             /\ queue[q].depth = fetched[i].depth + 1)
                => ~BelowMinYearOnly(i, queue[q].url)

(***************************************************************************)
(* Claims about the telephone directory crawl.                             *)
(***************************************************************************)
\* the contacts sighted in a run: person n of the i-th fetched page
PeopleOn(i) == extract_people_from_html(fetched[i].body.rows)

Sightings ==
    UNION {{<<i, n>> : n \in DOMAIN PeopleOn(i)} :
              i \in {i \in DOMAIN fetched : fetched[i].ok}}

SightedPerson(s) == PeopleOn(s[1])[s[2]]
SightedPath(s) == fetched[s[1]].dept_path
SightedPage(s) == fetched[s[1]].url

\* the dedup key crawl() resolves for a sighting
SightedKey(s) ==
    dedup_key(
        SightedPerson(s).office_tel_norm,
        department_id(
            SightedPerson(s).is_enquiry_like,
            record_department_root(SightedPerson(s).department_override, SightedPath(s)),
            effective_department_path(
                SightedPath(s), SightedPerson(s).is_enquiry_like,
                record_department_root(SightedPerson(s).department_override,
                                       SightedPath(s)))))

\* the run returned and the record cap never cut a page short
RanToTheEnd ==
    /\ crawler = "tel_directory"
    /\ cstate = "done"
    /\ Len(out) < cfg.max_total_records

RecordsWithKey(k) == {i \in DOMAIN out : out[i].dedup_key = k}

\* the pages a record was sighted on
RecordPages(r) ==
    {r.discovered_from}
    \cup (IF r.discovered_from_urls = None THEN {} ELSE Range(r.discovered_from_urls))

\* C7: directory dedup merge: when two different pages, reached via different
\* breadcrumbs, both list a contact with the same normalized phone and the
\* same resolved department identity, the output has exactly one record for
\* that dedup key and its department_paths list contains both breadcrumbs.
C7_MergeKeepsBothBreadcrumbs ==
    RanToTheEnd =>
        \A s, t \in Sightings :
            ( /\ s[1] # t[1]
              /\ SightedPath(s) # SightedPath(t)
              /\ SightedKey(s) = SightedKey(t) )
            => /\ Cardinality(RecordsWithKey(SightedKey(s))) = 1
               /\ \A k \in RecordsWithKey(SightedKey(s)) :
                     /\ SightedPath(s) \in Range(out[k].department_paths)
                     /\ SightedPath(t) \in Range(out[k].department_paths)

\* two sightings of an enquiry-like contact with one phone number, on two
\* pages whose breadcrumbs share the first element
EnquiryPair(s, t) ==
    /\ s[1] # t[1]
    /\ SightedPerson(s).is_enquiry_like
    /\ SightedPerson(t).is_enquiry_like
    /\ SightedPerson(s).office_tel_norm = SightedPerson(t).office_tel_norm
    /\ SightedPath(s) # <<>>
    /\ SightedPath(t) # <<>>
    /\ SightedPath(s)[1] = SightedPath(t)[1]

\* both sightings went to one record under the first breadcrumb element
PinnedToRoot(s, t) ==
    /\ Cardinality(RecordsWithKey(dedup_key(SightedPerson(s).office_tel_norm,
                                            SightedPath(s)[1]))) = 1
    /\ \A k \in RecordsWithKey(dedup_key(SightedPerson(s).office_tel_norm,
                                         SightedPath(s)[1])) :
          /\ out[k].department_root = SightedPath(s)[1]
          /\ out[k].department_paths = <<<<SightedPath(s)[1]>>>>
          /\ {SightedPage(s), SightedPage(t)} \subseteq RecordPages(out[k])

\* C8 as stated: enquiry pinning for every enquiry-like contact: found on
\* pages under two breadcrumbs that share the first element, it is attributed
\* to that first element in both cases and yields a single record.
C8_EnquiryPinned_AnyRow ==
    RanToTheEnd =>
        \A s, t \in Sightings : EnquiryPair(s, t) => PinnedToRoot(s, t)

\* C8: enquiry pinning for an enquiry-like contact whose row names no
\* department of its own: found on pages under two breadcrumbs that share the
\* first element, it is attributed to that first element in both cases and
\* yields a single record.  (A service row that names a department is
\* attributed to that department instead.)
C8_EnquiryPinned ==
    RanToTheEnd =>
        \A s, t \in Sightings :
            ( /\ EnquiryPair(s, t)
              /\ SightedPerson(s).department_override = None
              /\ SightedPerson(t).department_override = None )
            => PinnedToRoot(s, t)

\* a finished run that met the "Enquiry" row on two pages, under the
\* breadcrumbs Ba > D1 and Ba > D2, and returned it as one record under Ba
C8_Witness ==
    /\ RanToTheEnd
    /\ \E s, t \in Sightings :
          /\ EnquiryPair(s, t)
          /\ SightedPerson(s) = EnquiryRow
          /\ SightedPerson(t) = EnquiryRow
          /\ SightedPath(s) = <<LabelBa, LabelD1>>
          /\ SightedPath(t) = <<LabelBa, LabelD2>>
          /\ PinnedToRoot(s, t)

\* the links of fetched pages that crawl() followed: link n of the i-th fetched page
FollowedLinks ==
    UNION {{<<i, n>> : n \in {n \in DOMAIN fetched[i].body.links :
                                /\ Strip(fetched[i].body.links[n].href) # <<>>
                                /\ TelCrawlable[fetched[i].body.links[n].href]
                                /\ TelCanon[fetched[i].body.links[n].href] # None}} :
              i \in {i \in DOMAIN fetched : fetched[i].ok}}

LinkTarget(l) == TelCanon[fetched[l[1]].body.links[l[2]].href]

\* the breadcrumb crawl() gives the target of a followed link
LinkPath(l) ==
    IF LinkTarget(l) \in DOMAIN fetched[l[1]].body.tree
    THEN fetched[l[1]].body.tree[LinkTarget(l)]
    ELSE NextPathFromText(fetched[l[1]].dept_path,
                          clean_department_segment(fetched[l[1]].body.links[l[2]].text))

\* some record of the output places the phone number under the breadcrumb
Attributed(phone, path) ==
    \E k \in DOMAIN out :
        /\ StartsWith(out[k].dedup_key, phone \o <<"|">>)
        /\ path \in Range(out[k].department_paths)

\* C26: when links discover one directory page under two different
\* breadcrumbs in a run, the contacts of that page are attributed to both
\* breadcrumbs in the output, whether the second link is met while the page is
\* still queued or after it was fetched.  (Stated for the page's ordinary
\* contacts, when the page's own office tree does not place it.)
C26_BothBreadcrumbs ==
    RanToTheEnd =>
        \A l, m \in FollowedLinks : \A s \in Sightings :
            ( /\ LinkTarget(l) = LinkTarget(m)
              /\ LinkPath(l) # LinkPath(m)
              /\ LinkPath(l) # <<>> /\ LinkPath(m) # <<>>
              /\ SightedPage(s) = LinkTarget(l)
              /\ SightedPage(s) \notin DOMAIN fetched[s[1]].body.tree
              /\ ~SightedPerson(s).is_enquiry_like
              /\ SightedPerson(s).office_tel_norm # <<>> )
            => /\ Attributed(SightedPerson(s).office_tel_norm, LinkPath(l))
               /\ Attributed(SightedPerson(s).office_tel_norm, LinkPath(m))

\* C27: at every point of the directory crawl the output holds exactly one
\* record per dedup key: no two records share a dedup key (so a record is only
\* ever created for a key not seen before), and record_by_key and the output
\* list hold the same records, each under its own key.
C27_OneRecordPerKey ==
    crawler = "tel_directory" =>
        /\ \A i, j \in DOMAIN out : out[i].dedup_key = out[j].dedup_key => i = j
        /\ DOMAIN record_by_key = {out[i].dedup_key : i \in DOMAIN out}
        /\ \A k \in DOMAIN record_by_key :
              /\ record_by_key[k] \in DOMAIN out
              /\ out[record_by_key[k]].dedup_key = k

\* a finished run with two records, one of them sighted on two pages
C27_Witness ==
    /\ RanToTheEnd
    /\ Len(out) >= 2
    /\ \E i \in DOMAIN out :
          /\ out[i].discovered_from_urls # None
          /\ Len(out[i].discovered_from_urls) = 2

\* the fetched pages that their own office tree lists
SelfListed == {i \in DOMAIN fetched : fetched[i].ok /\ fetched[i].url \in DOMAIN fetched[i].body.tree}

\* the breadcrumbs a record of such a page may carry: the tree's breadcrumb for
\* the page, its root, or the department an enquiry-like row names itself
TreePaths(i) ==
    {fetched[i].body.tree[fetched[i].url],
     <<fetched[i].body.tree[fetched[i].url][1]>>}
    \cup {<<normalize_department_id(PeopleOn(i)[n].department_override)>> :
            n \in {n \in DOMAIN PeopleOn(i) :
                     /\ PeopleOn(i)[n].is_enquiry_like
                     /\ PeopleOn(i)[n].department_override # None}}

\* C28: every record created for a contact of a directory page that the
\* page's own office tree lists carries the tree's breadcrumb for the page (or
\* its root, for an enquiry-like contact), never one inherited from the
\* traversal; records minted when a link on another page leads back to the
\* visited page included.
C28_TreeBreadcrumbOnly ==
    crawler = "tel_directory" =>
        \A k \in DOMAIN out : \A i \in SelfListed :
            out[k].discovered_from = fetched[i].url
                => Range(out[k].department_paths) \subseteq TreePaths(i)

(***************************************************************************)
(* Claims about the politeness sleeps of the frontier loop.                *)
(***************************************************************************)
\* the crawlers whose loop sleeps for politeness
PacedCrawlers ==
    {"devb_publications", "archsd_practices_and_guidelines",
     "emsd.regulating_railway_safety", "tel_directory"}

\* the k-th politeness sleep came ahead of the i-th page fetch, after the page
\* was marked visited, and lasted the base delay plus a jitter from [0, jitter]
SleptAhead(k, i) ==
    /\ politeness[k].fetches = i - 1
    /\ fetched[i].url \in politeness[k].visited
    /\ politeness[k].seconds >= cfg.request_delay_seconds
    /\ politeness[k].seconds <= cfg.request_delay_seconds + cfg.request_jitter_seconds

\* C33: in the frontier crawl every page fetch is preceded, after the page was
\* marked visited, by a politeness sleep of at least the configured base delay
\* plus a jitter drawn from [0, jitter]; so between two consecutive page
\* fetches of a run such a sleep occurs.  (With a base delay of zero a sleep
\* that is left out counts as a sleep of no length.)
C33_SleepBeforeEveryFetch ==
    (crawler \in PacedCrawlers /\ cfg.request_delay_seconds > 0) =>
        \A i \in DOMAIN fetched : \E k \in DOMAIN politeness : SleptAhead(k, i)

\* the pacing the four loops share: between two consecutive page fetches a
\* politeness sleep of that length occurs
SleepBetweenFetches ==
    (crawler \in PacedCrawlers /\ cfg.request_delay_seconds > 0) =>
        \A i \in DOMAIN fetched :
            i > 1 => \E k \in DOMAIN politeness :
                        /\ politeness[k].fetches = i - 1
                        /\ politeness[k].seconds >= cfg.request_delay_seconds
                        /\ politeness[k].seconds
                              <= cfg.request_delay_seconds + cfg.request_jitter_seconds

(***************************************************************************)
(* Claims about the crawlers that log a failed page fetch and go on.       *)
(***************************************************************************)
\* the step fetched a page and get_with_retries raised
FetchFailedStep ==
    /\ Len(fetched') = Len(fetched) + 1
    /\ ~fetched'[Len(fetched')].ok

\* what holds in every state of a run that logs fetch failures
FailedPagesStaySeen ==
    crawler = "emsd.regulating_railway_safety" =>
        /\ \A i \in DOMAIN fetched : ~fetched[i].ok => fetched[i].url \in visited_pages
        /\ \A i, j \in DOMAIN fetched : fetched[i].url = fetched[j].url => i = j
        /\ cstate # "raised"
        /\ cstate = "done" => queue = <<>>

\* what a step of such a run does: a failed fetch leaves the records alone and
\* the loop with the rest of the queue, and no step takes a record away
FailureGoesOn ==
    crawler = "emsd.regulating_railway_safety" =>
        /\ IsPrefix(out, out')
        /\ visited_pages \subseteq visited_pages'
        /\ FetchFailedStep =>
              /\ queue' = Tail(queue)
              /\ out' = out
              /\ cstate' = IF queue' = <<>> THEN "done" ELSE "running"

\* C34: in a crawler that continues on error, when a page fetch fails after all
\* retries the page stays marked seen and is never fetched again, the loop goes
\* on with the remaining queue, and every record emitted before the failure is
\* still in the output crawl() returns.
C34_ContinueOnError == [](FailedPagesStaySeen) /\ [][FailureGoesOn]_vars

\* a returned run whose second fetch failed after a record was emitted and
\* whose third fetch succeeded
C34_Witness ==
    /\ crawler = "emsd.regulating_railway_safety"
    /\ cstate = "done"
    /\ Len(fetched) >= 3
    /\ ~fetched[2].ok
    /\ fetched[2].emitted > 0
    /\ fetched[3].ok
    /\ Len(out) > fetched[2].emitted

(***************************************************************************)
(* Claims about the records of the frontier crawl once they are emitted.   *)
(***************************************************************************)
\* the fetched pages that offered the document, in visit order
OfferingPages(url) ==
    {i \in DOMAIN fetched : fetched[i].ok /\ url \in OfferedDocuments(fetched[i].body)}

\* every record describes the first page in visit order that offered its document
DescribesFirstPage ==
    crawler \in FrontierCrawlers =>
        \A k \in DOMAIN out :
            /\ OfferingPages(out[k].url) # {}
            /\ out[k].discovered_from = fetched[Min(OfferingPages(out[k].url))].url
            /\ out[k].depth = fetched[Min(OfferingPages(out[k].url))].depth

\* a step keeps every record as it is: the list grows at its end while the
\* loop runs and is only reordered by the final sort, and a page whose
\* documents were all seen before leaves the records as they are
RecordsKept ==
    crawler \in FrontierCrawlers =>
        /\ Range(out) \subseteq Range(out')
        /\ Len(out) <= Len(out')
        /\ cstate' = "running" => IsPrefix(out, out')
        /\ (/\ Len(fetched') = Len(fetched) + 1
            /\ fetched'[Len(fetched')].ok
            /\ OfferedDocuments(fetched'[Len(fetched')].body) \subseteq seen_docs)
              => (Range(out') = Range(out) /\ Len(out') = Len(out))

\* C35: in the frontier crawl a record once emitted is never modified,
\* replaced or removed: when the same canonical document URL is seen again the
\* output list and the existing record's discovered_from and depth stay as
\* they are, so a record describes the first page in visit order that linked
\* the document.
C35_RecordsAreKept == [](DescribesFirstPage) /\ [][RecordsKept]_vars

\* a returned run in which two fetched pages offered the same document and the
\* record names the first of them
C35_Witness ==
    /\ crawler \in FrontierCrawlers
    /\ cstate = "done"
    /\ \E k \in DOMAIN out :
          /\ Cardinality(OfferingPages(out[k].url)) >= 2
          /\ out[k].discovered_from = fetched[Min(OfferingPages(out[k].url))].url
          /\ \E j \in OfferingPages(out[k].url) : fetched[j].url # out[k].discovered_from

(***************************************************************************)
(* Claims about the end of the crawl loop.                                 *)
(***************************************************************************)
\* crawl() has ended: it returned, or a fetch error left it
CrawlEnded == cstate \in {"done", "raised"}

\* a run that returned left the loop on an empty queue or on a cap; a run
\* that raised did so on a failed fetch
EndedForAReason ==
    /\ cstate = "done" =>
          \/ queue = <<>>
          \/ Cardinality(visited_pages) >= cfg.max_pages
          \/ Len(out) >= cfg.max_total_records
    /\ cstate = "raised" => (fetched # <<>> /\ ~fetched[Len(fetched)].ok)

\* a step puts items on the queue only while it processes a page it fetched,
\* and a page is fetched only when it was not visited before
EnqueuesOnFirstFetch ==
    /\ queue' # Tail(queue) =>
          /\ Len(fetched') = Len(fetched) + 1
          /\ fetched'[Len(fetched')].ok
    /\ Len(fetched') = Len(fetched) + 1 =>
          /\ fetched'[Len(fetched')].url \notin visited_pages
          /\ fetched'[Len(fetched')].url \in visited_pages'

\* C36: on a finite site where every fetch returns or raises the crawl loop
\* terminates: the run ends with the queue empty, with a cap reached, or with
\* a raised fetch error; items are put on the queue only while a page fetched
\* for the first time is processed.
C36_Terminates ==
    /\ <>CrawlEnded
    /\ [](EndedForAReason)
    /\ [][EnqueuesOnFirstFetch]_vars

\* a run that returned on an empty queue after three fetches, below its caps
C36_Witness ==
    /\ cstate = "done"
    /\ queue = <<>>
    /\ Len(fetched) = 3
    /\ Cardinality(visited_pages) < cfg.max_pages
    /\ Len(out) < cfg.max_total_records

(***************************************************************************)
(* Claims about the telephone numbers of the directory records.            *)
(***************************************************************************)
\* the first component of a dedup key: what stands before the first "|"
PhonePart(key) == SubSeq(key, 1, FindFrom(key, "|", 1) - 1)

\* a non-empty string of decimal digits
IsPhoneNorm(s) == s # <<>> /\ \A j \in DOMAIN s : IsDigit(s[j])

\* the normalized numbers of the rows of fetched pages that have one
SightedPhones == {SightedPerson(s).office_tel_norm : s \in Sightings}

\* C37: every record of the directory crawl has a non-empty digits-only
\* normalized phone as the first component of its dedup key; a table row
\* without a parseable phone produces no record and no entry of the dedup map.
C37_KeysStartWithPhone ==
    crawler = "tel_directory" =>
        /\ \A k \in DOMAIN out :
              /\ FindFrom(out[k].dedup_key, "|", 1) > 1
              /\ IsPhoneNorm(PhonePart(out[k].dedup_key))
              /\ PhonePart(out[k].dedup_key) \in SightedPhones
        /\ DOMAIN record_by_key = {out[k].dedup_key : k \in DOMAIN out}
        /\ \A i \in DOMAIN fetched :
              (fetched[i].ok /\ fetched[i].url \in DOMAIN page_entries) =>
                  Len(page_entries[fetched[i].url]) = Len(PeopleOn(i))

\* a returned run that fetched a page with a row without a number and a row
\* with one, and holds a record for the second only
C37_Witness ==
    /\ crawler = "tel_directory"
    /\ cstate = "done"
    /\ \E i \in DOMAIN fetched :
          /\ fetched[i].ok
          /\ fetched[i].body.rows = <<RowNoTel, RowEnquiry>>
          /\ Len(page_entries[fetched[i].url]) = 1
    /\ Len(out) = 1
    /\ PhonePart(out[1].dedup_key) = <<"2", "3", "4", "5", "6", "7", "8", "0">>

(***************************************************************************)
(* Claims about _normalize_phone and _dedup_key.                           *)
(***************************************************************************)
\* C39: two raw telephone strings that hold the same 8-digit local number and
\* differ only in non-digit formatting and in an optional leading 852
\* normalize to the same digit string, the local number, and give the same
\* dedup key for the same department; an 8-digit local number that itself
\* starts with 852 is not shortened.
C39_SameNumberSameKey ==
    phone_out # NoPhones =>
        /\ phone_out.norm[1] = phone_in.local
        /\ phone_out.norm[2] = phone_in.local
        /\ phone_out.key[1] = phone_out.key[2]
        /\ PhonePart(phone_out.key[1]) = phone_in.local

\* the local number 8521 2345, written bare and written as +852 8521-2345
C39_Witness ==
    /\ phone_out # NoPhones
    /\ phone_in.local = <<"8", "5", "2", "1", "2", "3", "4", "5">>
    /\ phone_in.raw[1] = phone_in.local
    /\ phone_in.raw[2] = <<"+", "8", "5", "2", " ", "8", "5", "2", "1", "-", "2", "3", "4", "5">>
    /\ phone_in.department_id # None
    /\ phone_out.norm[2] = phone_in.local
    /\ phone_out.key[1] = phone_out.key[2]

(***************************************************************************)
(* Claims about what main() writes when a crawler raises.                  *)
(***************************************************************************)
\* C38: when main runs several crawlers and one of them raises, no output
\* file (urls.jsonl, summary.json, manifest.json) is written, the records of
\* the crawlers that completed before included; output is written only after
\* every crawler has returned.
C38_NoOutputOnFailure ==
    /\ mstate = "raised" => (files = <<>> /\ written = <<>>)
    /\ files # <<>> =>
          /\ files = OutputFiles
          /\ mstate = "written"
          /\ names_left = <<>>
          /\ cstate = "done"
    /\ mstate \in {"running", "collected"} => (files = <<>> /\ written = <<>>)

\* a run of the crawler list that collected records of a crawler that
\* returned, then met a crawler that raised, and wrote nothing
C38_Witness ==
    /\ mstate = "raised"
    /\ all_records # <<>>
    /\ Len(names_left) < Len(crawler_names) - 1
    /\ files = <<>>
    /\ written = <<>>

====
